---- MODULE Spec2Model ----
(***************************************************************************)
(* Model of the naming and versioning engine of oyProjectManager           *)
(* (oyProjectManager/core/models.py): name conditioning of Project and     *)
(* Version names, and the allocation of Version numbers against the        *)
(* per-project Versions table.                                             *)
(*                                                                         *)
(* A Python string is a sequence of one-character strings.  A name value   *)
(* is a record [kind, chars] whose kind is "None", "str" or "unicode".     *)
(***************************************************************************)
EXTENDS Integers, Sequences, FiniteSets, Bags, TLC

(* ------------------------------ bounds --------------------------------- *)

\* longest raw name that is conditioned
MaxLen == 4
\* number of callers that make one concurrent allocation call each
NumCallers == 3
\* number of processes that go on constructing and saving Versions
NumProcesses == 2
\* largest number of rows of the Versions table
MaxVersions == 2
\* largest version number a caller asks for explicitly
MaxRequested == 3

(* ----------------------------- characters ------------------------------ *)

Lower == {"a", "b", "c", "d", "e", "m", "n", "s"}
Upper == {"A", "B", "C", "D", "E", "M", "I", "N", "S", "H", "Q"}
Digit == {"0", "1", "2", "3"}
Space == {" "}
\* the characters raw names are drawn from: letters, a digit, the underscore,
\* the dash, the blank and one character outside [a-zA-Z0-9\s_]
Chars == {"a", "b", "A", "1", "_", "-", " ", "!"}

Alpha == Lower \cup Upper

\* str.upper() on one character
UpperChar(c) ==
    IF c = "a" THEN "A" ELSE IF c = "b" THEN "B"
    ELSE IF c = "c" THEN "C" ELSE IF c = "d" THEN "D"
    ELSE IF c = "e" THEN "E" ELSE IF c = "m" THEN "M"
    ELSE IF c = "n" THEN "N" ELSE IF c = "s" THEN "S" ELSE c

SetMin(S) == CHOOSE x \in S : \A y \in S : x <= y
SetMax(S) == CHOOSE x \in S : \A y \in S : x >= y

\* the subsequence of s from index i to its end
Tail_from(s, i) == SubSeq(s, i, Len(s))

(* ----------------- the steps of the conditioning pipeline -------------- *)

\* name.strip()
strip(s) ==
    LET NonSp == {i \in 1..Len(s) : s[i] \notin Space}
    IN  IF NonSp = {} THEN <<>> ELSE SubSeq(s, SetMin(NonSp), SetMax(NonSp))

\* name.replace("-", "_")
replace_dash(s) == [i \in 1..Len(s) |-> IF s[i] = "-" THEN "_" ELSE s[i]]

\* re.sub(r"(.+?[a-z]+)([A-Z])", r"\1_\2", name): a match that is looked for
\* from position p starts at p, takes at least one character for ".+?" and
\* at least one lower-case letter, and ends at the first upper-case letter
\* that follows a lower-case letter; the scan goes on after the match
RECURSIVE camel_case_from(_, _)
camel_case_from(s, p) ==
    LET E == {e \in (p + 2)..Len(s) : s[e] \in Upper /\ s[e - 1] \in Lower}
    IN  IF E = {} THEN Tail_from(s, p)
        ELSE LET e == SetMin(E)
             IN  SubSeq(s, p, e - 1) \o <<"_", s[e]>> \o camel_case_from(s, e + 1)

camel_case(s) == camel_case_from(s, 1)

\* re.sub("([^a-zA-Z0-9\s_]+)", r"", name)
remove_invalid(s) ==
    SelectSeq(s, LAMBDA c : c \in Alpha \cup Digit \cup Space \cup {"_"})

\* re.sub("(^[^a-zA-Z]+)", r"", name)
strip_leading_non_alpha(s) ==
    LET A == {i \in 1..Len(s) : s[i] \in Alpha}
    IN  IF A = {} THEN <<>> ELSE Tail_from(s, SetMin(A))

\* re.sub("([\s])+", "_", name)
RECURSIVE spaces_to_underscore(_)
spaces_to_underscore(s) ==
    IF s = <<>> THEN <<>>
    ELSE IF Head(s) \in Space
         THEN IF Len(s) > 1 /\ s[2] \in Space
              THEN spaces_to_underscore(Tail(s))
              ELSE <<"_">> \o spaces_to_underscore(Tail(s))
         ELSE <<Head(s)>> \o spaces_to_underscore(Tail(s))

\* name.upper()
upper(s) == [i \in 1..Len(s) |-> UpperChar(s[i])]

\* name.split("_"): the words between the underscores, empty words included
RECURSIVE split_underscore(_)
split_underscore(s) ==
    LET U == {i \in 1..Len(s) : s[i] = "_"}
    IN  IF U = {} THEN <<s>>
        ELSE LET u == SetMin(U)
             IN  <<SubSeq(s, 1, u - 1)>> \o split_underscore(Tail_from(s, u + 1))

\* "_".join(words)
RECURSIVE join_underscore(_)
join_underscore(words) ==
    IF words = <<>> THEN <<>>
    ELSE IF Len(words) = 1 THEN words[1]
    ELSE words[1] \o <<"_">> \o join_underscore(Tail(words))

\* word[0].upper() + word[1:]
capitalize_word(word) == <<UpperChar(word[1])>> \o Tail(word)

\* [word[0].upper() + word[1:] for word in name.split("_") if len(word)]
title_words(s) ==
    LET words == SelectSeq(split_underscore(s), LAMBDA w : Len(w) > 0)
    IN  [i \in 1..Len(words) |-> capitalize_word(words[i])]

(* ----------------------------- name values ----------------------------- *)

NoneValue == [kind |-> "None", chars |-> <<>>]
Str(s) == [kind |-> "str", chars |-> s]
\* the outcome of a call that raised
Raised(e) == [kind |-> "raise", chars |-> <<e>>]
IsRaised(v) == v.kind = "raise"

\* name is "": the identity test against the str literal.  The empty str is
\* one shared object, so a str is that object exactly when it is empty; a
\* unicode object is never the str literal, whatever its length
is_empty_literal(name) == name.kind = "str" /\ name.chars = <<>>

\* Project.condition_name without the final name.upper()
Project_condition_name_no_upper(name) ==
    IF name.kind = "None" THEN Raised("TypeError")
    ELSE IF is_empty_literal(name) THEN Raised("ValueError")
    ELSE LET r == [kind  |-> name.kind,
                   chars |-> spaces_to_underscore(strip_leading_non_alpha(
                                 remove_invalid(camel_case(replace_dash(
                                     strip(name.chars))))))]
         IN  IF is_empty_literal(r) THEN Raised("ValueError") ELSE r

\* Project.condition_name
Project_condition_name(name) ==
    IF name.kind = "None" THEN Raised("TypeError")
    ELSE IF is_empty_literal(name) THEN Raised("ValueError")
    ELSE LET r == [kind  |-> name.kind,
                   chars |-> upper(spaces_to_underscore(strip_leading_non_alpha(
                                 remove_invalid(camel_case(replace_dash(
                                     strip(name.chars)))))))]
         IN  IF is_empty_literal(r) THEN Raised("ValueError") ELSE r

\* Version._condition_name without the upper-casing of the first letters
Version_condition_name_no_title(name) ==
    [kind  |-> name.kind,
     chars |-> join_underscore(SelectSeq(split_underscore(spaces_to_underscore(
                   strip_leading_non_alpha(remove_invalid(replace_dash(
                       strip(name.chars)))))), LAMBDA w : Len(w) > 0))]

\* Version._condition_name
Version_condition_name(name) ==
    [kind  |-> name.kind,
     chars |-> join_underscore(title_words(spaces_to_underscore(
                   strip_leading_non_alpha(remove_invalid(replace_dash(
                       strip(name.chars)))))))]

(* --------------------------- name validators --------------------------- *)

\* conf.TAKE_NAME
TAKE_NAME == <<"M", "A", "I", "N">>

\* Project._validate_name: the value stored in Project.name, or the raise
Project_validate_name(name_in) == Project_condition_name(name_in)

\* Version._validate_base_name: the value stored in Version.base_name, or
\* the raise
Version_validate_base_name(base_name) ==
    IF base_name.kind = "None" THEN Raised("RuntimeError")
    ELSE LET r == Version_condition_name(base_name)
         IN  IF r.chars = <<>> THEN Raised("ValueError") ELSE r

\* Version._validate_take_name: the value stored in Version.take_name, or
\* the raise
Version_validate_take_name(take_name) ==
    LET t == IF take_name.kind = "None" THEN Str(TAKE_NAME) ELSE take_name
        r == Version_condition_name(t)
    IN  IF r.chars = <<>> THEN Raised("ValueError") ELSE r

(* --------------------------- version numbers --------------------------- *)

\* the version_number argument when the caller passes None
NoNumber == 0

\* Version.max_version without the filter on take_name
max_version_any_take(versions, base_name, take_name) ==
    LET found == {r \in BagToSet(versions) : r.base_name = base_name}
    IN  IF found = {} THEN 0
        ELSE SetMax({r.version_number : r \in found})

\* Version.max_version: the version_number of the first row, in descending
\* order of version_number, with this base_name and this take_name; 0 when
\* there is no such row
max_version(versions, base_name, take_name) ==
    LET found == {r \in BagToSet(versions) :
                      /\ r.base_name = base_name
                      /\ r.take_name = take_name}
    IN  IF found = {} THEN 0
        ELSE SetMax({r.version_number : r \in found})

\* Version._validate_version_number with "<" in place of "<="
Version_validate_version_number_strict(version_number, max) ==
    LET n == IF version_number = NoNumber THEN max + 1 ELSE version_number
    IN  IF n < max THEN max + 1 ELSE n

\* Version._validate_version_number, given the max_version it has read
Version_validate_version_number(version_number, max) ==
    LET n == IF version_number = NoNumber THEN max + 1 ELSE version_number
    IN  IF n <= max THEN max + 1 ELSE n

\* a Versions table declared without the UniqueConstraint
unique_conflicts_none(versions, row) == {}

\* UniqueConstraint("base_name", "take_name", "_version_number"): the rows
\* that forbid the insertion of row
unique_conflicts(versions, row) ==
    {r \in BagToSet(versions) :
        /\ r.base_name = row.base_name
        /\ r.take_name = row.take_name
        /\ r.version_number = row.version_number}

(* -------------------------------- state -------------------------------- *)

VARIABLES
    Versions,    \* the Versions table of the project: a bag of rows
    pc,          \* per caller: "idle", "constructed", "saved" or "error"
    obj,         \* per caller: the Version it has constructed and not yet
                 \* passed to save
    err,         \* per caller: the exception its last call raised, or ""
    name_in,     \* the raw name handed to a name attribute
    attribute,   \* the attribute the raw name was assigned to, or "none"
    stored,      \* the value of that attribute, or the raise
    passes,      \* how many times the attribute has been assigned
    Shots,       \* the Shots table: a bag of rows
    shot,        \* per maker: the Shot it has constructed and not yet saved
    shot_err,    \* per maker: the exception its last Shot call raised, or ""
    shotList,    \* the shot names of a Sequence, a list of strings
    alternate,   \* the value the last alternate-name call returned
    sequence_shots, \* the _shots of the Sequence: the names of its Shot objects
    settings,    \* the settings file of the Sequence: the shots it holds
    returned,    \* the names addAlternativeShot has returned so far
    rendering,   \* the last rendering: its template, its Version, its outcome
    file_name,   \* the name of the file an Asset is made of, or unset
    asset,       \* the Asset made of that file name
    folders,     \* the names of the project folders Project.create has made
    databases,   \* the names of the projects whose metadata file exists
    Projects,    \* the rows of the Projects tables: a bag of project names
    Sequences,   \* the rows of the Sequences tables: a bag of rows
    project,     \* per user: the Project object it holds
    sequence,    \* per user: the Sequence object it holds
    pm_err,      \* per user: the exception its last call raised, or ""
    now,         \* the clock of the process, in seconds
    bCache,      \* the cache of the process: per key, the entry it holds
    sequenceDirs,\* the sequence folders under the project folder
    assetFiles,  \* the asset files under the asset folders of the sequence
    sequenceList,\* the _sequenceList of the Project object, a bag of names
    assetTypes,  \* the _assetTypes of the Sequence object, a list of names
    fresh,       \* per kind: the entity created since the last read, or ""
    answer       \* the last cached read: its kind, its result, what was fresh

alloc_vars == <<Versions, pc, obj, err>>
name_vars == <<name_in, attribute, stored, passes>>
shot_vars == <<Shots, shot, shot_err>>
seq_vars == <<shotList, alternate, sequence_shots, settings, returned>>
\* the state of the parts outside Version allocation and name conditioning
file_vars == <<rendering, file_name, asset>>
store_vars == <<folders, databases, Projects, Sequences>>
project_vars == <<store_vars, project, sequence, pm_err>>
cache_vars ==
    <<now, bCache, sequenceDirs, assetFiles, sequenceList, assetTypes, fresh,
      answer>>
ext_vars == <<shot_vars, seq_vars, file_vars, project_vars, cache_vars>>
\* the state outside each of these parts
non_shot_vars ==
    <<alloc_vars, name_vars, seq_vars, file_vars, project_vars,
      cache_vars>>
non_seq_vars ==
    <<alloc_vars, name_vars, shot_vars, file_vars, project_vars,
      cache_vars>>
non_file_vars ==
    <<alloc_vars, name_vars, shot_vars, seq_vars, project_vars,
      cache_vars>>
non_project_vars ==
    <<alloc_vars, name_vars, shot_vars, seq_vars, file_vars,
      cache_vars>>
non_cache_vars ==
    <<alloc_vars, name_vars, shot_vars, seq_vars, file_vars, project_vars>>
vars == <<alloc_vars, name_vars, ext_vars>>

Callers == 1..NumCallers

\* the callers that go on after their first call
Processes == 1..NumProcesses

\* the owner (an Asset or a Shot) and the VersionType a caller passes
OwnersAndTypes == {<<"asset1", "Model">>, <<"shot1", "Animation">>}

\* the raw base_name and take_name a caller passes: they condition to the
\* pairs (A, MAIN), (B, MAIN) and (A, A), or to an empty base name
RawNames == {<<Str(<<"a">>), NoneValue>>, <<Str(<<"b">>), NoneValue>>,
             <<Str(<<"a">>), Str(<<"a">>)>>, <<Str(<<"1">>), NoneValue>>}

\* the raw names that concurrent callers pass: two pairs that share the base
\* name, and an empty base name
RacedNames == RawNames \ {<<Str(<<"b">>), NoneValue>>}

\* more raw names, which condition to the same pairs
AllRawNames == RawNames \cup {<<Str(<<"A">>), Str(TAKE_NAME)>>,
                              <<Str(<<" ", "b">>), Str(<<"M", "A", "I", "N">>)>>,
                              <<Str(<<"1", "a">>), Str(<<"A", "!">>)>>}

\* the version_number a caller passes: the default 1, or a higher one
Requested == {1, MaxRequested}

\* every version_number a caller can pass, None included
AllRequested == {NoNumber} \cup 1..MaxRequested

NoObject == [version_of |-> "", type |-> "", base_name |-> <<>>,
             take_name |-> <<>>, version_number |-> 0]

Unset == [kind |-> "unset", chars |-> <<>>]

\* every sequence over Chars of length at most n
RECURSIVE StringsUpTo(_)
StringsUpTo(n) ==
    IF n = 0 THEN {<<>>}
    ELSE LET shorter == StringsUpTo(n - 1)
         IN  shorter \cup {Append(s, c) : s \in {t \in shorter : Len(t) = n - 1},
                                          c \in Chars}

NameInputs ==
    {NoneValue} \cup {[kind |-> k, chars |-> s] :
                          k \in {"str", "unicode"}, s \in StringsUpTo(MaxLen)}

InitAlloc ==
    /\ Versions = EmptyBag
    /\ pc = [p \in Callers |-> "idle"]
    /\ obj = [p \in Callers |-> NoObject]
    /\ err = [p \in Callers |-> ""]

InitNoName ==
    /\ name_in = NoneValue
    /\ attribute = "none"
    /\ stored = Unset
    /\ passes = 0

\* the processes that construct and save Shots
ShotMakers == {1, 2}

\* a frame argument or attribute: an int, None, or a value of another type
IntFrame(n) == [kind |-> "int", value |-> n]
NoneFrame == [kind |-> "None", value |-> 0]
NotAnInt == [kind |-> "str", value |-> 0]

NoShot == [sequence_id |-> 0, raw |-> <<>>, number |-> <<>>,
           start_frame |-> NoneFrame, end_frame |-> NoneFrame,
           duration |-> 0]

InitNoShots ==
    /\ Shots = EmptyBag
    /\ shot = [p \in ShotMakers |-> NoShot]
    /\ shot_err = [p \in ShotMakers |-> ""]

\* the sequence folder holds no settings file
NoSettings == [exists |-> FALSE, shots |-> <<>>]

InitNoShotList ==
    /\ shotList = <<>>
    /\ alternate = Unset
    /\ sequence_shots = <<>>
    /\ settings = NoSettings
    /\ returned = {}

NoRendering == [template |-> "", version |-> <<>>, out |-> Unset]

NoAsset == [fileName |-> NoneValue, extension |-> <<>>,
            baseName |-> NoneValue, subName |-> NoneValue,
            typeName |-> NoneValue, revString |-> NoneValue,
            verString |-> NoneValue, userInitials |-> NoneValue,
            notes |-> NoneValue, type |-> NoneValue, rev |-> 0, ver |-> 0,
            hasFullInfo |-> FALSE, raised |-> "", noSubNameField |-> FALSE]

InitNoFiles ==
    /\ rendering = NoRendering
    /\ file_name = Unset
    /\ asset = NoAsset

\* the processes that use Projects and Sequences
ProjectUsers == {1, 2}

\* no Project object, and a Project object as __init__ leaves it
NoProject == [constructed |-> FALSE, name |-> <<>>, persistent |-> FALSE,
              session |-> FALSE, exists |-> "None"]
NewProjectObject(name) == [NoProject EXCEPT !.constructed = TRUE, !.name = name]

NoSequenceObject == [project |-> <<>>, name |-> <<>>, persistent |-> FALSE]

\* an empty repository
InitNoProjects ==
    /\ folders = {}
    /\ databases = {}
    /\ Projects = EmptyBag
    /\ Sequences = EmptyBag
    /\ project = [u \in ProjectUsers |-> NoProject]
    /\ sequence = [u \in ProjectUsers |-> NoSequenceObject]
    /\ pm_err = [u \in ProjectUsers |-> ""]

\* the kinds of entity a cached read returns
Kinds == {"sequence", "file", "type"}

\* a cache key: the function and its arguments, self left out
CacheKeys ==
    {<<"sequenceNames", "">>, <<"getAssetFolders", "">>,
     <<"getAllAssets", "">>, <<"getAssetTypes", "None">>,
     <<"getAssetTypes", "MAYA">>, <<"getAssetTypeWithName", "MODEL">>,
     <<"getAssetTypeWithName", "RIG">>}

\* no entry under a key
NoEntry == [set |-> FALSE, at |-> 0, alias |-> FALSE, items |-> {}]

\* no cached read yet
NoAnswer == [kind |-> "none", result |-> {}, after |-> ""]

\* a new process: an empty cache, a project without sequences, and a sequence
\* with the asset type of its settings file and no asset files
InitNoCache ==
    /\ now = 0
    /\ bCache = [k \in CacheKeys |-> NoEntry]
    /\ sequenceDirs = {}
    /\ assetFiles = {}
    /\ sequenceList = EmptyBag
    /\ assetTypes = <<"MODEL">>
    /\ fresh = [k \in Kinds |-> ""]
    /\ answer = NoAnswer

InitExt ==
    /\ InitNoShots
    /\ InitNoShotList
    /\ InitNoFiles
    /\ InitNoProjects
    /\ InitNoCache

Init == InitAlloc /\ InitNoName /\ InitExt

(* ------------------------- Version allocation -------------------------- *)

\* Version.__init__(version_of, type, base_name, take_name, version_number):
\* base_name and take_name are validated, then version_number is set from
\* max_version as the table is at this moment
Version_init(p, version_of, type, base_name, take_name, version_number) ==
    /\ pc[p] = "idle"
    /\ BagCardinality(Versions) < MaxVersions
    /\ LET b == Version_validate_base_name(base_name)
           t == Version_validate_take_name(take_name)
       IN  IF IsRaised(b) \/ IsRaised(t)
           THEN /\ pc' = [pc EXCEPT ![p] = "error"]
                /\ err' = [err EXCEPT ![p] =
                              IF IsRaised(b) THEN b.chars[1] ELSE t.chars[1]]
                /\ obj' = obj
           ELSE /\ pc' = [pc EXCEPT ![p] = "constructed"]
                /\ obj' = [obj EXCEPT ![p] =
                      [version_of     |-> version_of,
                       type           |-> type,
                       base_name      |-> b.chars,
                       take_name      |-> t.chars,
                       version_number |-> Version_validate_version_number(
                           version_number,
                           max_version(Versions, b.chars, t.chars))]]
                /\ err' = err
    /\ UNCHANGED <<Versions, name_vars, ext_vars>>

\* the row session.add(self) inserts
row_of(o) == [version_of |-> o.version_of, type |-> o.type,
              base_name |-> o.base_name, take_name |-> o.take_name,
              version_number |-> o.version_number]

\* Version.save: session.add(self); session.commit().  The commit raises
\* IntegrityError and inserts nothing when the unique constraint forbids
\* the row.  The caller is done with the object when save returns or raises
Version_save(p) ==
    /\ pc[p] = "constructed"
    /\ IF unique_conflicts(Versions, row_of(obj[p])) # {}
       THEN /\ pc' = [pc EXCEPT ![p] = "error"]
            /\ err' = [err EXCEPT ![p] = "IntegrityError"]
            /\ Versions' = Versions
       ELSE /\ pc' = [pc EXCEPT ![p] = "saved"]
            /\ err' = err
            /\ Versions' = Versions (+) SetToBag({row_of(obj[p])})
    /\ obj' = [obj EXCEPT ![p] = NoObject]
    /\ UNCHANGED <<name_vars, ext_vars>>

\* the caller goes on to its next Version
next_call(p) ==
    /\ pc[p] \in {"saved", "error"}
    /\ pc' = [pc EXCEPT ![p] = "idle"]
    /\ err' = [err EXCEPT ![p] = ""]
    /\ UNCHANGED <<Versions, obj, name_vars, ext_vars>>

Construct ==
    \E p \in Processes, ot \in OwnersAndTypes, bt \in RacedNames, n \in Requested :
        Version_init(p, ot[1], ot[2], bt[1], bt[2], n)

Save == \E p \in Processes : Version_save(p)

NextCall == \E p \in Processes : next_call(p)

(* ----------------- one caller, one Version after another -------------- *)

\* a single process that constructs each Version with the default
\* version_number (or None) and saves it before it constructs the next
ConstructDefault ==
    \E ot \in OwnersAndTypes, bt \in RawNames, n \in {NoNumber, 1} :
        Version_init(1, ot[1], ot[2], bt[1], bt[2], n)

SaveOne == Version_save(1)

NextOne == next_call(1)

NextSequential == ConstructDefault \/ SaveOne \/ NextOne

SpecSequential == Init /\ [][NextSequential]_vars

(* ------------- one caller, every argument of Version.__init__ --------- *)

\* a single process that constructs and saves Versions with any names and
\* any version_number
ConstructAny ==
    \E ot \in OwnersAndTypes, bt \in AllRawNames, n \in AllRequested :
        Version_init(1, ot[1], ot[2], bt[1], bt[2], n)

NextAllocate == ConstructAny \/ SaveOne \/ NextOne

SpecAllocate == Init /\ [][NextAllocate]_vars

(* ------- N concurrent allocations on one (base_name, take_name) -------- *)

\* the pair all the concurrent callers allocate on
SharedNames == <<Str(<<"a">>), NoneValue>>

\* every caller makes one call, with no explicit version_number
ConstructShared ==
    \E p \in Callers, ot \in OwnersAndTypes, n \in {NoNumber, 1} :
        Version_init(p, ot[1], ot[2], SharedNames[1], SharedNames[2], n)

SaveShared == \E p \in Callers : Version_save(p)

NextConcurrent == ConstructShared \/ SaveShared

SpecConcurrent == Init /\ [][NextConcurrent]_vars

(* --------------------------- name attributes --------------------------- *)

\* the validator that runs when attribute a is assigned
validate(a, name) ==
    IF a = "Project.name" THEN Project_validate_name(name)
    ELSE IF a = "Version.base_name" THEN Version_validate_base_name(name)
    ELSE Version_validate_take_name(name)

\* Project.__init__: self.name = name
Project_init ==
    /\ attribute = "none"
    /\ attribute' = "Project.name"
    /\ stored' = validate("Project.name", name_in)
    /\ passes' = 1
    /\ UNCHANGED <<name_in, alloc_vars, ext_vars>>

\* Version.__init__: self.base_name = base_name
Version_set_base_name ==
    /\ attribute = "none"
    /\ attribute' = "Version.base_name"
    /\ stored' = validate("Version.base_name", name_in)
    /\ passes' = 1
    /\ UNCHANGED <<name_in, alloc_vars, ext_vars>>

\* Version.__init__: self.take_name = take_name
Version_set_take_name ==
    /\ attribute = "none"
    /\ attribute' = "Version.take_name"
    /\ stored' = validate("Version.take_name", name_in)
    /\ passes' = 1
    /\ UNCHANGED <<name_in, alloc_vars, ext_vars>>

\* the attribute is assigned its own value: the validator conditions the
\* conditioned name once more
Reassign ==
    /\ attribute # "none"
    /\ ~IsRaised(stored)
    /\ passes = 1
    /\ stored' = validate(attribute, stored)
    /\ passes' = 2
    /\ UNCHANGED <<name_in, attribute, alloc_vars, ext_vars>>

InitNames ==
    /\ InitAlloc
    /\ InitExt
    /\ name_in \in NameInputs
    /\ attribute = "none"
    /\ stored = Unset
    /\ passes = 0

NextNames ==
    Project_init \/ Version_set_base_name \/ Version_set_take_name \/ Reassign

SpecNames == InitNames /\ [][NextNames]_vars

Next == Construct \/ Save \/ NextCall

Spec == Init /\ [][Next]_vars

(* -------------------------------- Shots -------------------------------- *)

\* longest raw shot number
MaxShotLen == 3
\* largest number of rows of the Shots table
MaxShots == 2

\* conf.shot_number_prefix and conf.shot_number_padding
SHOT_PREFIX == <<"S", "H">>
SHOT_PADDING == 3

\* the ids of the persisted Sequences, and the sequence argument None
SequenceIds == {1, 2}
NoSequence == 0

\* re.sub(r"[^0-9a-zA-Z]+", "", number)
remove_non_alnum(s) == SelectSeq(s, LAMBDA c : c \in Alpha \cup Digit)

\* re.sub(r"(^[^0-9]*)([0-9]*)([a-zA-Z]{0,1})([a-zA-Z0-9]*)", r"\2\3", s) on
\* a string of letters and digits: the one non-empty match is the whole
\* string; group 1 is everything before the first digit, group 2 the run of
\* digits that starts there, group 3 the character after the run
number_and_letter(s) ==
    LET digits == {i \in 1..Len(s) : s[i] \in Digit}
        first  == IF digits = {} THEN Len(s) + 1 ELSE SetMin(digits)
        others == {i \in first..Len(s) : s[i] \notin Digit}
        stop   == IF others = {} THEN Len(s) + 1 ELSE SetMin(others)
    IN  SubSeq(s, first, stop - 1)
            \o (IF stop <= Len(s) /\ s[stop] \in Alpha THEN <<s[stop]>> ELSE <<>>)

\* the query without the filter on the Sequence
shots_numbered_any_sequence(shots, sequence_id, number) ==
    {r \in BagToSet(shots) : r.number = number}

\* the Shots of one Sequence that carry the number: the query of the validator
shots_numbered(shots, sequence_id, number) ==
    {r \in BagToSet(shots) : r.number = number /\ r.sequence_id = sequence_id}

\* Shot._validates_number without the upper-casing of the result
Shot_validates_number_no_upper(shots, sequence_id, number) ==
    IF number.kind \notin {"str", "unicode"} THEN Raised("TypeError")
    ELSE LET n == number_and_letter(remove_non_alnum(number.chars))
         IN  IF n = <<>> THEN Raised("ValueError")
             ELSE IF shots_numbered(shots, sequence_id, n) # {}
                  THEN Raised("ValueError")
                  ELSE Str(n)

\* Shot._validates_number
Shot_validates_number(shots, sequence_id, number) ==
    IF number.kind \notin {"str", "unicode"} THEN Raised("TypeError")
    ELSE LET n == upper(number_and_letter(remove_non_alnum(number.chars)))
         IN  IF n = <<>> THEN Raised("ValueError")
             ELSE IF shots_numbered(shots, sequence_id, n) # {}
                  THEN Raised("ValueError")
                  ELSE Str(n)

\* str.zfill(width)
zfill(s, width) ==
    IF Len(s) >= width THEN s ELSE [i \in 1..(width - Len(s)) |-> "0"] \o s

\* Shot.code
Shot_code(o) ==
    LET number == SelectSeq(o.number, LAMBDA c : c \notin Upper)
        alter  == SelectSeq(o.number, LAMBDA c : c \notin Digit)
    IN  SHOT_PREFIX \o zfill(number, SHOT_PADDING) \o alter

\* Shot._update_duration
Shot_update_duration(start_frame, end_frame) == end_frame - start_frame + 1

\* Shot._validate_start_frame on the Shot self: the Shot after the
\* assignment, or the exception
Shot_validate_start_frame(self, start_frame) ==
    LET v == IF start_frame = NoneFrame THEN IntFrame(1) ELSE start_frame
    IN  IF v.kind # "int" THEN [raised |-> "TypeError", self |-> self]
        ELSE [raised |-> "",
              self |-> [self EXCEPT
                  !.start_frame = v,
                  !.duration = IF self.end_frame # NoneFrame
                               THEN Shot_update_duration(v.value,
                                                         self.end_frame.value)
                               ELSE @]]

\* Shot._validate_end_frame: the test reads self.end_frame, the value the
\* attribute has before this assignment
Shot_validate_end_frame(self, end_frame) ==
    LET v == IF end_frame = NoneFrame THEN IntFrame(1) ELSE end_frame
    IN  IF v.kind # "int" THEN [raised |-> "TypeError", self |-> self]
        ELSE [raised |-> "",
              self |-> [self EXCEPT
                  !.end_frame = v,
                  !.duration = IF self.end_frame # NoneFrame
                               THEN Shot_update_duration(self.start_frame.value,
                                                         v.value)
                               ELSE @]]

\* Shot.__init__
Shot_init(p, sequence_id, number, start_frame, end_frame) ==
    /\ shot[p] = NoShot
    /\ BagCardinality(Shots) < MaxShots
    /\ LET n  == Shot_validates_number(Shots, sequence_id, number)
           s0 == [NoShot EXCEPT !.sequence_id = sequence_id,
                                !.raw = number.chars,
                                !.number = n.chars,
                                !.duration = 1]
           s1 == Shot_validate_start_frame(s0, start_frame)
           s2 == Shot_validate_end_frame(s1.self, end_frame)
           e  == IF sequence_id = NoSequence THEN "RuntimeError"
                 ELSE IF IsRaised(n) THEN n.chars[1]
                 ELSE IF s1.raised # "" THEN s1.raised
                 ELSE s2.raised
       IN  /\ shot_err' = [shot_err EXCEPT ![p] = e]
           /\ shot' = [shot EXCEPT ![p] = IF e = "" THEN s2.self ELSE NoShot]
    /\ UNCHANGED <<Shots, non_shot_vars>>

\* the row session.add(self) inserts
shot_row(o) == [sequence_id |-> o.sequence_id, number |-> o.number,
                start_frame |-> o.start_frame.value,
                end_frame |-> o.end_frame.value]

\* the rows UniqueConstraint("sequence_id", "number") forbids next to row
shot_conflicts(shots, row) ==
    {r \in BagToSet(shots) : /\ r.sequence_id = row.sequence_id
                             /\ r.number = row.number}

\* Shot.save: session.add(self); session.commit().  The caller is done with
\* the object when save returns or raises
Shot_save(p) ==
    /\ shot[p] # NoShot
    /\ IF shot_conflicts(Shots, shot_row(shot[p])) # {}
       THEN /\ shot_err' = [shot_err EXCEPT ![p] = "IntegrityError"]
            /\ Shots' = Shots
       ELSE /\ shot_err' = [shot_err EXCEPT ![p] = ""]
            /\ Shots' = Shots (+) SetToBag({shot_row(shot[p])})
    /\ shot' = [shot EXCEPT ![p] = NoShot]
    /\ UNCHANGED non_shot_vars

\* shot.start_frame = start_frame
Shot_set_start_frame(p, start_frame) ==
    /\ shot[p] # NoShot
    /\ LET r == Shot_validate_start_frame(shot[p], start_frame)
       IN  /\ shot' = [shot EXCEPT ![p] = r.self]
           /\ shot_err' = [shot_err EXCEPT ![p] = r.raised]
    /\ UNCHANGED <<Shots, non_shot_vars>>

\* shot.end_frame = end_frame
Shot_set_end_frame(p, end_frame) ==
    /\ shot[p] # NoShot
    /\ LET r == Shot_validate_end_frame(shot[p], end_frame)
       IN  /\ shot' = [shot EXCEPT ![p] = r.self]
           /\ shot_err' = [shot_err EXCEPT ![p] = r.raised]
    /\ UNCHANGED <<Shots, non_shot_vars>>

\* the characters raw shot numbers are drawn from
ShotChars == {"1", "2", "a", "A", "-"}

RECURSIVE ShotStringsUpTo(_)
ShotStringsUpTo(n) ==
    IF n = 0 THEN {<<>>}
    ELSE LET shorter == ShotStringsUpTo(n - 1)
         IN  shorter \cup {Append(s, c) : s \in {t \in shorter : Len(t) = n - 1},
                                          c \in ShotChars}

\* the number arguments: None, every short string, and the numbers of the
\* documentation of Shot
ShotNumbers ==
    {NoneValue} \cup {Str(s) : s \in ShotStringsUpTo(MaxShotLen)}
        \cup {Str(<<"1">>), Str(<<"1", "2", "a">>),
              Str(<<"a", "b", "c", "3", "2", "3", "d">>), Str(<<"1", "Q">>)}

\* one maker constructs the first Shot of Sequence 1 from any number
ConstructNumbered ==
    /\ Shots = EmptyBag
    /\ \E number \in ShotNumbers :
           Shot_init(1, 1, number, IntFrame(1), IntFrame(1))

SaveNumbered == Shot_save(1)

NextShotCodes == ConstructNumbered \/ SaveNumbered

SpecShotCodes == Init /\ [][NextShotCodes]_vars

\* the numbers the makers of one production pass: "1a", "1A" and "-1a-"
\* are the same shot number
SharedShotNumbers == {Str(<<"1">>), Str(<<"1", "a">>), Str(<<"1", "A">>),
                      Str(<<"-", "1", "a", "-">>), Str(<<"a">>)}

\* the makers construct Shots of the two Sequences and save them, in any order
ConstructShot ==
    \E p \in ShotMakers, q \in SequenceIds, number \in SharedShotNumbers :
        Shot_init(p, q, number, IntFrame(1), IntFrame(1))

SaveShot == \E p \in ShotMakers : Shot_save(p)

NextShots == ConstructShot \/ SaveShot

SpecShots == Init /\ [][NextShots]_vars

\* largest frame number a caller passes
MaxFrame == 2

\* the frame arguments: ints, None, and a value that is not an int
FrameArgs ==
    {IntFrame(n) : n \in (0 - MaxFrame)..MaxFrame} \cup {NoneFrame, NotAnInt}

\* one maker constructs a Shot with any frame range, assigns its frames
\* and saves it
ConstructFramed ==
    \E number \in {Str(<<"1">>), Str(<<"2">>)}, s \in FrameArgs, e \in FrameArgs :
        Shot_init(1, 1, number, s, e)

AssignStartFrame == \E s \in FrameArgs : Shot_set_start_frame(1, s)

AssignEndFrame == \E e \in FrameArgs : Shot_set_end_frame(1, e)

SaveFramed == Shot_save(1)

NextFrames == ConstructFramed \/ AssignStartFrame \/ AssignEndFrame \/ SaveFramed

SpecFrames == Init /\ [][NextFrames]_vars

(* ------------------------- alternate shot names ------------------------ *)

\* the decimal digits as characters
DigitChars == <<"0", "1", "2", "3", "4", "5", "6", "7", "8", "9">>

\* str(n) of an int n >= 0
RECURSIVE str_int(_)
str_int(n) ==
    IF n < 10 THEN <<DigitChars[n + 1]>>
    ELSE Append(str_int(n \div 10), DigitChars[(n % 10) + 1])

\* the letters getNextAlternateShotName tries, in the order it tries them
alternateLetters ==
    <<"A", "B", "C", "D", "E", "F", "G", "H", "I", "J", "K", "L", "M",
      "N", "O", "P", "R", "S", "T", "U", "V", "W", "X", "Y", "Z">>

\* x in list
in_list(x, list) == \E i \in 1..Len(list) : list[i] = x

\* the for loop of getNextAlternateShotName from the i-th letter on
RECURSIVE next_alternate_from(_, _, _)
next_alternate_from(list, shot_number, i) ==
    IF i > Len(alternateLetters) THEN NoneValue
    ELSE LET newShotNumber == Append(str_int(shot_number), alternateLetters[i])
         IN  IF ~in_list(newShotNumber, list) THEN Str(newShotNumber)
             ELSE next_alternate_from(list, shot_number, i + 1)

\* the loop without the test against the shot list
getNextAlternateShotName_unlisted(list, shot_number) ==
    Str(Append(str_int(shot_number), alternateLetters[1]))

\* Sequence.getNextAlternateShotName
getNextAlternateShotName(list, shot_number) == next_alternate_from(list, shot_number, 1)

\* a caller asks for the next alternate name of a shot
Sequence_getNextAlternateShotName(shot_number) ==
    /\ alternate' = getNextAlternateShotName(shotList, shot_number)
    /\ UNCHANGED <<shotList, sequence_shots, settings, returned, non_seq_vars>>

\* addAlternativeShot without the append to the shot list
Sequence_addAlternativeShot_unlisted(shotNumber) ==
    /\ LET alternativeShotName == getNextAlternateShotName(shotList, shotNumber)
       IN  /\ alternate' = alternativeShotName
           /\ sequence_shots' = IF alternativeShotName # NoneValue
                                THEN Append(sequence_shots, alternativeShotName.chars)
                                ELSE sequence_shots
           /\ returned' = IF alternativeShotName # NoneValue
                          THEN returned \cup {alternativeShotName.chars}
                          ELSE returned
    /\ UNCHANGED <<shotList, settings, non_seq_vars>>

\* Sequence.addAlternativeShot: the name goes to the end of the shot list and
\* a Shot of that name to the end of the shot objects
Sequence_addAlternativeShot(shotNumber) ==
    /\ LET alternativeShotName == getNextAlternateShotName(shotList, shotNumber)
       IN  /\ alternate' = alternativeShotName
           /\ shotList' = IF alternativeShotName # NoneValue
                          THEN Append(shotList, alternativeShotName.chars)
                          ELSE shotList
           /\ sequence_shots' = IF alternativeShotName # NoneValue
                                THEN Append(sequence_shots, alternativeShotName.chars)
                                ELSE sequence_shots
           /\ returned' = IF alternativeShotName # NoneValue
                          THEN returned \cup {alternativeShotName.chars}
                          ELSE returned
    /\ UNCHANGED <<settings, non_seq_vars>>

\* the shot names a settings file can hold, in the order of the sorted list
SettingsShots ==
    <<<<"1", "0">>, <<"1", "0", "A">>, <<"1", "0", "B">>, <<"1", "0", "C">>,
      <<"1", "1">>, <<"1", "1", "A">>>>

\* the sub-lists of a list
RECURSIVE SubLists(_)
SubLists(list) ==
    IF list = <<>> THEN {<<>>}
    ELSE LET rest == SubLists(Tail(list))
         IN  rest \cup {<<Head(list)>> \o r : r \in rest}

\* the shot numbers callers ask alternates of
AskedShots == {10, 11}

\* the Sequence was loaded with some of the shots of the settings
InitAlternates ==
    /\ InitAlloc
    /\ InitNoName
    /\ InitNoShots
    /\ InitNoFiles
    /\ InitNoProjects
    /\ InitNoCache
    /\ shotList \in SubLists(SettingsShots)
    /\ alternate = Unset
    /\ sequence_shots = shotList
    /\ settings = [exists |-> TRUE, shots |-> shotList]
    /\ returned = {}

AskAlternate == \E shot_number \in AskedShots : Sequence_getNextAlternateShotName(shot_number)

\* alternates are added to shot 10 until no letter is left
AddAlternate == Sequence_addAlternativeShot(10)

NextAlternates == AskAlternate \/ AddAlternate

SpecAlternates == InitAlternates /\ [][NextAlternates]_vars

(* -------------------------- template rendering ------------------------- *)

\* a value of the template context: an object, an int (its decimal digits),
\* a string or None
Object == [kind |-> "object", chars |-> <<>>]
IntValue(n) == [kind |-> "int", chars |-> str_int(n)]
Undefined == [kind |-> "Undefined", chars |-> <<>>]

\* the pieces of a template: text, {{path}} and {{'%03d'|format(path)}}
Text(s) == [op |-> "text", arg |-> s]
Var(path) == [op |-> "var", arg |-> path]
Format03d(path) == [op |-> "format03d", arg |-> path]

\* the filename template of the version types of the default configuration
FILENAME ==
    <<Var(<<"version", "base_name">>), Text(<<"_">>),
      Var(<<"version", "take_name">>), Text(<<"_">>),
      Var(<<"type", "code">>), Text(<<"_", "v">>),
      Format03d(<<"version", "version_number">>), Text(<<"_">>),
      Var(<<"version", "created_by", "initials">>),
      Var(<<"version", "extension">>)>>

\* the path template of the Model type
MODEL_PATH ==
    <<Var(<<"project", "code">>),
      Text(<<"/", "A", "s", "s", "e", "t", "s", "/">>),
      Var(<<"version", "base_name">>), Text(<<"/">>), Var(<<"type", "code">>)>>

\* the path template of the Animation type
ANIMATION_PATH ==
    <<Var(<<"project", "code">>),
      Text(<<"/", "S", "e", "q", "u", "e", "n", "c", "e", "s", "/">>),
      Var(<<"sequence", "code">>),
      Text(<<"/", "S", "h", "o", "t", "s", "/">>),
      Var(<<"version", "base_name">>), Text(<<"/">>), Var(<<"type", "code">>)>>

Templates == {"filename", "Model.path", "Animation.path"}

template_of(name) ==
    IF name = "filename" THEN FILENAME
    ELSE IF name = "Model.path" THEN MODEL_PATH
    ELSE ANIMATION_PATH

\* Version._template_variables: the names and attributes a template can
\* reach, as a function from paths to values.  A Version has no attribute
\* extension; the sequence of a Version of an Asset is the string ""
template_variables(v) ==
    LET owned == {<<"project">>, <<"project", "code">>, <<"sequence">>,
                  <<"version">>, <<"version", "base_name">>,
                  <<"version", "take_name">>, <<"version", "version_number">>,
                  <<"version", "created_by">>,
                  <<"version", "created_by", "initials">>,
                  <<"type">>, <<"type", "code">>}
        paths == IF v.of_shot THEN owned \cup {<<"sequence", "code">>} ELSE owned
    IN  [p \in paths |->
            IF p = <<"project", "code">> THEN Str(v.project_code)
            ELSE IF p = <<"sequence">> /\ ~v.of_shot THEN Str(<<>>)
            ELSE IF p = <<"sequence", "code">> THEN Str(v.sequence_code)
            ELSE IF p = <<"version", "base_name">> THEN Str(v.base_name)
            ELSE IF p = <<"version", "take_name">> THEN Str(v.take_name)
            ELSE IF p = <<"version", "version_number">> THEN IntValue(v.version_number)
            ELSE IF p = <<"version", "created_by", "initials">> THEN Str(v.initials)
            ELSE IF p = <<"type", "code">> THEN Str(v.type_code)
            ELSE Object]

\* the value of {{path}} in a context: a name that the context does not
\* hold, or an attribute that an object does not have, is Undefined; an
\* attribute of Undefined raises
resolve(context, path) ==
    IF path \in DOMAIN context THEN context[path]
    ELSE IF Len(path) = 1 \/ SubSeq(path, 1, Len(path) - 1) \in DOMAIN context
         THEN Undefined
         ELSE Raised("UndefinedError")

\* the text of one piece: Undefined prints as the empty string, and
\* '%03d' % Undefined raises
piece(context, p) ==
    IF p.op = "text" THEN Str(p.arg)
    ELSE LET value == resolve(context, p.arg)
         IN  IF IsRaised(value) THEN value
             ELSE IF p.op = "var"
                  THEN IF value.kind = "object" THEN Str(<<"<", ">">>)
                       ELSE Str(value.chars)
                  ELSE IF value.kind = "int" THEN Str(zfill(value.chars, 3))
                       ELSE Raised("TypeError")

\* jinja2.Template(template).render(**context)
RECURSIVE render(_, _)
render(template, context) ==
    IF template = <<>> THEN Str(<<>>)
    ELSE LET first == piece(context, Head(template))
             rest  == render(Tail(template), context)
         IN  IF IsRaised(first) THEN first
             ELSE IF IsRaised(rest) THEN rest
             ELSE Str(first.chars \o rest.chars)

\* Version.filename and Version.path: the template of the type is rendered
\* with the variables of the Version; the file is saved under the name
Version_render(name, v) ==
    /\ LET out == render(template_of(name), template_variables(v))
       IN  /\ rendering' = [template |-> name, version |-> v, out |-> out]
           /\ file_name' = IF name = "filename" /\ ~IsRaised(out) THEN out
                           ELSE file_name
    /\ asset' = NoAsset
    /\ UNCHANGED non_file_vars

(* --------------------------- file name parsing ------------------------- *)

\* conf.rev_number_prefix and conf.ver_number_prefix
REV_PREFIX == <<"r">>
VER_PREFIX == <<"v">>

\* the names of the asset types of the Sequence
AssetTypeNames == {<<"M", "O", "D", "E", "L">>, <<"A", "N", "I", "M">>}

IsDigitChar(c) == \E i \in 1..Len(DigitChars) : DigitChars[i] = c

\* int(s) succeeds: s is a string of decimal digits
is_int(s) == Len(s) > 0 /\ \A i \in 1..Len(s) : IsDigitChar(s[i])

\* int(s) of a string of decimal digits
RECURSIVE int_str(_)
int_str(s) ==
    IF s = <<>> THEN 0
    ELSE 10 * int_str(SubSeq(s, 1, Len(s) - 1))
             + (CHOOSE d \in 0..9 : DigitChars[d + 1] = s[Len(s)])

\* os.path.splitext(name): the name is cut at its last dot, unless only
\* dots come before it
splitext(name) ==
    LET dots == {i \in 1..Len(name) : name[i] = "."}
        last == SetMax(dots)
    IN  IF dots = {} \/ \A i \in 1..(last - 1) : name[i] = "."
        THEN <<name, <<>>>>
        ELSE <<SubSeq(name, 1, last - 1), Tail_from(name, last)>>

\* Sequence.convertToRevNumber and Sequence.convertToVerNumber: the text
\* after the prefix goes to int()
number_text(string, prefix) == Tail_from(string, Len(prefix) + 1)

\* the part of guessInfoVariablesFromFileName after the fields are read
Asset_guess_type_and_numbers(a) ==
    IF a.typeName.chars \notin AssetTypeNames THEN a
    ELSE LET t == [a EXCEPT !.type = a.typeName]
         IN  IF ~is_int(number_text(a.revString.chars, REV_PREFIX))
                \/ ~is_int(number_text(a.verString.chars, VER_PREFIX))
             THEN t
             ELSE [t EXCEPT
                      !.rev = int_str(number_text(a.revString.chars, REV_PREFIX)),
                      !.ver = int_str(number_text(a.verString.chars, VER_PREFIX)),
                      !.hasFullInfo = TRUE]

\* Asset.guessInfoVariablesFromFileName on the Asset a, whose fileName is set
Asset_guessInfoVariablesFromFileName(a) ==
    LET parts == split_underscore(a.fileName.chars)
        n == Len(parts)
        field(i) == Str(parts[i])
        notes_from(i) ==
            IF n >= i THEN Str(join_underscore(SubSeq(parts, i, n))) ELSE Str(<<>>)
    IN  IF ~a.noSubNameField
        THEN IF n < 5 THEN a
             ELSE IF n = 5
                  THEN [a EXCEPT !.baseName = field(1), !.subName = field(2),
                                 !.typeName = field(3), !.revString = field(4),
                                 !.verString = field(5), !.fileName = Str(<<>>)]
                  ELSE Asset_guess_type_and_numbers(
                           [a EXCEPT !.baseName = field(1), !.subName = field(2),
                                     !.typeName = field(3), !.revString = field(4),
                                     !.verString = field(5),
                                     !.userInitials = field(6),
                                     !.notes = notes_from(7)])
        ELSE IF n < 4 THEN a
             ELSE IF n = 4
                  THEN [a EXCEPT !.baseName = field(1), !.typeName = field(2),
                                 !.revString = field(3), !.verString = field(4),
                                 !.raised = "IndexError"]
                  ELSE Asset_guess_type_and_numbers(
                           [a EXCEPT !.baseName = field(1), !.typeName = field(2),
                                     !.revString = field(3),
                                     !.verString = field(4),
                                     !.userInitials = field(5),
                                     !.notes = notes_from(6)])

\* Asset.__init__ with the file name of state and a Sequence whose
\* noSubNameField is the argument: the extension is removed and the rest
\* is parsed
Asset_init(noSubNameField) ==
    /\ file_name # Unset
    /\ ~IsRaised(file_name)
    /\ asset' = Asset_guessInfoVariablesFromFileName(
                    [NoAsset EXCEPT
                        !.fileName = Str(splitext(file_name.chars)[1]),
                        !.extension =
                            IF splitext(file_name.chars)[2] = <<>> THEN <<>>
                            ELSE Tail(splitext(file_name.chars)[2]),
                        !.noSubNameField = noSubNameField])
    /\ UNCHANGED <<rendering, file_name, non_file_vars>>

\* re.match(prefix + '[0-9]+', string): the string starts with the prefix and
\* a digit follows it
match_prefix_digits(string, prefix) ==
    /\ Len(string) > Len(prefix)
    /\ SubSeq(string, 1, Len(prefix)) = prefix
    /\ IsDigitChar(string[Len(prefix) + 1])

\* Asset._validateRevString and Asset._validateVerString
Asset_validateRevString(a) ==
    /\ a.revString.kind # "None"
    /\ a.revString.chars # <<>>
    /\ match_prefix_digits(a.revString.chars, REV_PREFIX)

Asset_validateVerString(a) ==
    /\ a.verString.kind # "None"
    /\ a.verString.chars # <<>>
    /\ match_prefix_digits(a.verString.chars, VER_PREFIX)

\* field != '' and field is not None
has_text(field) == field.kind # "None" /\ field.chars # <<>>

\* Asset.isValidAsset
Asset_isValidAsset(a) ==
    IF ~a.noSubNameField
    THEN /\ has_text(a.baseName)
         /\ has_text(a.subName)
         /\ has_text(a.typeName)
         /\ has_text(a.revString)
         /\ has_text(a.verString)
         /\ has_text(a.userInitials)
         /\ Asset_validateRevString(a)
         /\ Asset_validateVerString(a)
    ELSE /\ has_text(a.baseName)
         /\ has_text(a.typeName)
         /\ has_text(a.revString)
         /\ has_text(a.verString)
         /\ has_text(a.userInitials)
         /\ Asset_validateRevString(a)
         /\ Asset_validateVerString(a)

\* Asset.fileNameWithoutExtension: None for an Asset that is not valid, else
\* the fields joined by the separator, the name of the type object among
\* them, which is an AttributeError when there is no type object
Asset_fileNameWithoutExtension(a) ==
    IF ~Asset_isValidAsset(a) THEN NoneValue
    ELSE IF a.type = NoneValue THEN Raised("AttributeError")
    ELSE LET sub == IF ~a.noSubNameField THEN <<a.subName.chars>> ELSE <<>>
             notes == IF a.notes.kind # "None" /\ a.notes.chars # <<>>
                      THEN <<a.notes.chars>> ELSE <<>>
         IN  Str(join_underscore(<<a.baseName.chars>> \o sub
                                 \o <<a.type.chars, a.revString.chars,
                                      a.verString.chars, a.userInitials.chars>>
                                 \o notes))

\* the file name of the valid Asset of state is built, to be parsed again
BuildFileName ==
    /\ Asset_isValidAsset(asset)
    /\ file_name' = Asset_fileNameWithoutExtension(asset)
    /\ UNCHANGED <<rendering, asset, non_file_vars>>

\* a file of this name is found in an asset folder
Found(name) ==
    /\ file_name' = Str(name)
    /\ rendering' = NoRendering
    /\ asset' = NoAsset
    /\ UNCHANGED non_file_vars

\* the fields of file names, new grammar first, and some other fields
NewFields == <<<<"C", "a", "r">>, <<"M", "A", "I", "N">>, <<"M", "O", "D", "E", "L">>, <<"r", "0", "1">>, <<"v", "0", "0", "3">>, <<"o", "y">>, <<"n", "o", "t", "e">>, <<"m", "o", "r", "e">>>>
OldFields == <<<<"C", "a", "r">>, <<"M", "O", "D", "E", "L">>, <<"r", "0", "1">>, <<"v", "0", "0", "3">>, <<"o", "y">>, <<"n", "o", "t", "e">>, <<"m", "o", "r", "e">>>>
OtherFields == {<<"X", "X">>, <<"v", "x", "x">>, <<>>, <<"r", "0", "1", "x">>}

\* the lists that differ from fields in one place
OneChanged(fields) ==
    {[fields EXCEPT ![i] = f] : i \in 1..Len(fields), f \in OtherFields}

\* the file names of a folder: every number of fields of both grammars,
\* fields that do not fit, and file extensions
FoundNames ==
    LET lists == {SubSeq(NewFields, 1, k) : k \in 1..Len(NewFields)}
                     \cup {SubSeq(OldFields, 1, k) : k \in 1..Len(OldFields)}
                     \cup OneChanged(SubSeq(NewFields, 1, 6))
                     \cup OneChanged(SubSeq(OldFields, 1, 5))
        names == {join_underscore(l) : l \in lists}
    IN  names \cup {n \o <<".", "m", "a">> : n \in names}

\* the Versions whose templates are rendered
RenderedVersions ==
    {[project_code |-> <<"P">>, sequence_code |-> <<"S", "E", "Q", "1">>, of_shot |-> s,
      base_name |-> b, take_name |-> <<"M", "A", "I", "N">>, version_number |-> n,
      initials |-> <<"o", "y">>, type_code |-> IF s THEN <<"A", "N", "I", "M">> ELSE <<"M", "O", "D", "E", "L">>] :
        s \in BOOLEAN, b \in {<<"C", "a", "r">>, <<"B", "a", "s", "e", "_", "N", "a", "m", "e">>}, n \in {1, 3}}

Render == \E name \in Templates, v \in RenderedVersions : Version_render(name, v)

Find == \E name \in FoundNames : Found(name)

Parse == \E noSubNameField \in BOOLEAN : Asset_init(noSubNameField)

NextFiles == Render \/ Find \/ Parse \/ BuildFileName

SpecFiles == Init /\ [][NextFiles]_vars

(* ----------------- the shots of a legacy Sequence object ---------------- *)

\* longest shot list of a legacy Sequence
MaxShotNames == 4

\* the place of a shot name in the order of its embedded number and of its
\* alternate letter
shot_key(name) ==
    LET number == SelectSeq(name, IsDigitChar)
        letter == SelectSeq(name, LAMBDA c : ~IsDigitChar(c))
    IN  int_str(number) * (Len(alternateLetters) + 1)
            + (IF letter = <<>> THEN 0
               ELSE CHOOSE i \in 1..Len(alternateLetters) :
                        alternateLetters[i] = letter[1])

\* utils.sort_string_numbers and Sequence._sortShots
sort_string_numbers(list) ==
    SortSeq(list, LAMBDA a, b : shot_key(a) < shot_key(b))

\* utils.unique: the list without the repetitions of its elements
RECURSIVE unique(_)
unique(list) ==
    IF list = <<>> THEN <<>>
    ELSE LET front == unique(SubSeq(list, 1, Len(list) - 1))
         IN  IF in_list(list[Len(list)], front) THEN front
             ELSE Append(front, list[Len(list)])

\* Sequence._parseShotDataNode: a Shot of every shot node goes to _shots and
\* its name to _shotList; then _shots is sorted
parseShotDataNode(file) ==
    /\ sequence_shots' = sort_string_numbers(sequence_shots \o file.shots)
    /\ shotList' = shotList \o file.shots

\* Sequence.readSettings: nothing is read when there is no settings file
Sequence_readSettings ==
    /\ Len(shotList) + Len(settings.shots) <= MaxShotNames
    /\ Len(sequence_shots) + Len(settings.shots) <= MaxShotNames
    /\ IF settings.exists THEN parseShotDataNode(settings)
       ELSE UNCHANGED <<shotList, sequence_shots>>
    /\ UNCHANGED <<alternate, settings, returned, non_seq_vars>>

\* Sequence.__init__: empty lists, then readSettings
Sequence_init ==
    /\ shotList' = settings.shots
    /\ sequence_shots' = sort_string_numbers(settings.shots)
    /\ alternate' = Unset
    /\ returned' = {}
    /\ UNCHANGED <<settings, non_seq_vars>>

\* Sequence.create: the default settings file, which holds no shots, is
\* copied to the folder of a sequence that does not exist; then the settings
\* are read
Sequence_create ==
    /\ Len(shotList) + Len(settings.shots) <= MaxShotNames
    /\ Len(sequence_shots) + Len(settings.shots) <= MaxShotNames
    /\ settings' = [settings EXCEPT !.exists = TRUE]
    /\ parseShotDataNode(settings)
    /\ UNCHANGED <<alternate, returned, non_seq_vars>>

\* Sequence.addShots with the list utils.convertRangeToList gives
Sequence_addShots(newShotsList) ==
    /\ Len(shotList) + Len(newShotsList) <= MaxShotNames
    /\ Len(sequence_shots) + Len(newShotsList) <= MaxShotNames
    /\ shotList' = sort_string_numbers(unique(shotList \o newShotsList))
    /\ sequence_shots' =
           sort_string_numbers(sequence_shots
               \o SelectSeq(newShotsList,
                            LAMBDA n : ~in_list(n, sequence_shots)))
    /\ UNCHANGED <<alternate, settings, returned, non_seq_vars>>

\* Sequence.saveSettings in the folder of a sequence that exists: _shots is
\* sorted and a shot node is written for each of its Shots
Sequence_saveSettings ==
    /\ settings.exists
    /\ sequence_shots' = sort_string_numbers(sequence_shots)
    /\ settings' = [settings EXCEPT
                       !.shots = sort_string_numbers(sequence_shots)]
    /\ UNCHANGED <<shotList, alternate, returned, non_seq_vars>>

\* the ranges given to addShots: "10", "11" and "10-11"
ShotRanges == {<<<<"1", "0">>>>, <<<<"1", "1">>>>, <<<<"1", "0">>, <<"1", "1">>>>}

NewSequenceObject == Sequence_init

ReadSettings == Sequence_readSettings

CreateSequenceFolder == Sequence_create

AddShots == \E newShotsList \in ShotRanges : Sequence_addShots(newShotsList)

AddAlternativeShot ==
    /\ Len(shotList) < MaxShotNames
    /\ Len(sequence_shots) < MaxShotNames
    /\ Sequence_addAlternativeShot(10)

SaveSettings == Sequence_saveSettings

NextLegacy ==
    \/ NewSequenceObject
    \/ ReadSettings
    \/ CreateSequenceFolder
    \/ AddShots
    \/ AddAlternativeShot
    \/ SaveSettings

SpecLegacy == Init /\ [][NextLegacy]_vars

(* ------------------------- Projects and Sequences ---------------------- *)

Unicode(s) == [kind |-> "unicode", chars |-> s]

\* if name: a string that is not empty
truthy(name) == name.kind \in {"str", "unicode"} /\ name.chars # <<>>

\* os.path.exists(fullPath) of the Project of this name: fullPath is
\* os.path.join(server_path, name), which is the repository itself when the
\* name is empty
folder_exists(name, made) == name = <<>> \/ name \in made

\* the lookup of Project.__new__: the name is conditioned, and when the
\* metadata file of that name exists the Projects table is queried for it
Project_lookup(name, files, rows) ==
    /\ truthy(name)
    /\ ~IsRaised(Project_condition_name(name))
    /\ Project_condition_name(name).chars \in files
    /\ Project_condition_name(name).chars \in BagToSet(rows)

\* Project.__new__ and Project.__init__
Project_new(u, name) ==
    /\ IF truthy(name) /\ IsRaised(Project_condition_name(name))
       THEN /\ pm_err' = [pm_err EXCEPT ![u] = Project_condition_name(name).chars[1]]
            /\ project' = project
       ELSE IF Project_lookup(name, databases, Projects)
       THEN /\ pm_err' = [pm_err EXCEPT ![u] = ""]
            /\ project' = [project EXCEPT ![u] =
                   [NewProjectObject(Project_condition_name(name).chars)
                        EXCEPT !.persistent = TRUE, !.session = TRUE]]
       ELSE LET v == Project_validate_name(name)
            IN  IF IsRaised(v)
                THEN /\ pm_err' = [pm_err EXCEPT ![u] = v.chars[1]]
                     /\ project' = project
                ELSE /\ pm_err' = [pm_err EXCEPT ![u] = ""]
                     /\ project' = [project EXCEPT ![u] =
                            NewProjectObject(v.chars)]
    /\ UNCHANGED <<store_vars, sequence, non_project_vars>>

\* Project.save on the Project o when the folders made are made: the
\* session is set up on the metadata file, which is created in the project
\* folder; the Project is added and committed, and the commit raises when
\* the table holds the name
save_outcome(o, made) ==
    IF ~o.session /\ ~folder_exists(o.name, made)
    THEN [raised |-> "OperationalError", self |-> o, file |-> {}, rows |-> EmptyBag]
    ELSE IF o.persistent
    THEN [raised |-> "", self |-> [o EXCEPT !.session = TRUE],
          file |-> {o.name}, rows |-> EmptyBag]
    ELSE IF o.name \in BagToSet(Projects)
    THEN [raised |-> "IntegrityError", self |-> [o EXCEPT !.session = TRUE],
          file |-> {o.name}, rows |-> EmptyBag]
    ELSE [raised |-> "",
          self |-> [o EXCEPT !.session = TRUE, !.persistent = TRUE],
          file |-> {o.name}, rows |-> SetToBag({o.name})]

\* Project.save
Project_save(u) ==
    /\ project[u] # NoProject
    /\ LET r == save_outcome(project[u], folders)
       IN  /\ project' = [project EXCEPT ![u] = r.self]
           /\ pm_err' = [pm_err EXCEPT ![u] = r.raised]
           /\ databases' = databases \cup r.file
           /\ Projects' = Projects (+) r.rows
    /\ UNCHANGED <<folders, Sequences, sequence, non_project_vars>>

\* Project.create: the folder is made, then the Project is saved
Project_create(u) ==
    /\ project[u] # NoProject
    /\ folders' = folders \cup {project[u].name}
    /\ LET r == save_outcome([project[u] EXCEPT !.exists = "True"], folders')
       IN  /\ project' = [project EXCEPT ![u] = r.self]
           /\ pm_err' = [pm_err EXCEPT ![u] = r.raised]
           /\ databases' = databases \cup r.file
           /\ Projects' = Projects (+) r.rows
    /\ UNCHANGED <<Sequences, sequence, non_project_vars>>

\* Project.exists: os.path.exists(fullPath), looked up once and kept
Project_exists(o, made) ==
    IF o.exists = "None" THEN folder_exists(o.name, made) ELSE o.exists = "True"

\* Sequence._check_project for an argument that is None ("None"), a value
\* that is neither a Project nor a string ("int") or the Project o
\* ("Project"): the exception it raises, or ""
Sequence_check_project(arg, o, made) ==
    IF arg = "None" THEN "TypeError"
    ELSE IF arg # "Project" THEN "TypeError"
    ELSE IF ~Project_exists(o, made) THEN "RuntimeError"
    ELSE ""

\* the rows of the Sequences table of a project with the name
sequences_named(rows, project_name, name) ==
    {r \in BagToSet(rows) : r.project = project_name /\ r.name = name}

\* Sequence.__new__ and Sequence.__init__ with a name that is conditioned
\* and not empty
Sequence_new(u, arg, name) ==
    /\ arg = "Project" => project[u] # NoProject
    /\ LET o == project[u]
           e == Sequence_check_project(arg, o, folders)
           checked == [o EXCEPT !.exists =
                          IF Project_exists(o, folders) THEN "True" ELSE "False"]
       IN  IF e # ""
           THEN /\ pm_err' = [pm_err EXCEPT ![u] = e]
                /\ sequence' = sequence
                /\ project' = IF arg = "Project"
                              THEN [project EXCEPT ![u] = checked] ELSE project
           ELSE /\ project' = [project EXCEPT ![u] = checked]
                /\ IF ~o.session
                   THEN /\ pm_err' = [pm_err EXCEPT ![u] = "AttributeError"]
                        /\ sequence' = sequence
                   ELSE /\ pm_err' = [pm_err EXCEPT ![u] = ""]
                        /\ sequence' = [sequence EXCEPT ![u] =
                               [project |-> o.name, name |-> name,
                                persistent |->
                                    sequences_named(Sequences, o.name, name) # {}]]
    /\ UNCHANGED <<store_vars, non_project_vars>>

\* Sequence.save: session.add(self); session.commit().  The commit raises
\* when the table of the project holds the name, or when the Project of the
\* Sequence is added with it and the Projects table holds its name
Sequence_save(u) ==
    /\ sequence[u] # NoSequenceObject
    /\ LET s == sequence[u]
           owner_pending == /\ project[u].name = s.project
                            /\ ~project[u].persistent
       IN  IF s.persistent
           THEN /\ pm_err' = [pm_err EXCEPT ![u] = ""]
                /\ UNCHANGED <<Sequences, sequence>>
           ELSE IF sequences_named(Sequences, s.project, s.name) # {}
                   \/ owner_pending
           THEN /\ pm_err' = [pm_err EXCEPT ![u] = "IntegrityError"]
                /\ UNCHANGED <<Sequences, sequence>>
           ELSE /\ pm_err' = [pm_err EXCEPT ![u] = ""]
                /\ Sequences' = Sequences
                       (+) SetToBag({[project |-> s.project, name |-> s.name]})
                /\ sequence' = [sequence EXCEPT ![u].persistent = TRUE]
    /\ UNCHANGED <<folders, databases, Projects, project, non_project_vars>>

\* the raw project names the users pass: "a" and " a" condition to A, and
\* the unicode names "1" and "" to the empty name
RawProjectNames ==
    {Str(<<"a">>), Str(<<" ", "a">>), Unicode(<<"1">>), Unicode(<<>>), NoneValue}

\* the project arguments of Sequence
ProjectArguments == {"None", "int", "Project"}

NewProject == \E u \in ProjectUsers, name \in RawProjectNames : Project_new(u, name)

SaveProject == \E u \in ProjectUsers : Project_save(u)

CreateProject == \E u \in ProjectUsers : Project_create(u)

NewSequence ==
    \E u \in ProjectUsers, arg \in ProjectArguments :
        Sequence_new(u, arg, <<"S", "E", "Q", "1">>)

SaveSequence == \E u \in ProjectUsers : Sequence_save(u)

NextProjects ==
    NewProject \/ SaveProject \/ CreateProject \/ NewSequence \/ SaveSequence

SpecProjects == Init /\ [][NextProjects]_vars

(* ============================ cached reads ============================== *)

\* how many times the clock advances
MaxTicks == 2

\* the step of the clock, in seconds
TickSeconds == 30

\* the expire argument of the cache decorator, in seconds
expire == 60

\* the sequences a process creates
NewSequenceNames == {"SEQ1"}

\* the asset types a process adds to the one of the settings file
NewAssetTypeNames == {"RIG"}

\* the asset files a process saves, and the asset folder each is saved under
NewAssetFiles == {"MODEL_a", "RIG_b"}

asset_folder_of(file) == IF file = "MODEL_a" THEN "MODEL" ELSE "RIG"

\* the elements of a list
list_items(list) == {list[i] : i \in DOMAIN list}

\* the cache holds a value under the key and, where the decorator was given an
\* expire time, the value is younger than that
has_current_value(cache, key, expires) ==
    /\ cache[key].set
    /\ expires => now < cache[key].at + expire

\* the entry of a value stored now: a list the function has built, or the very
\* list object an attribute holds; the time of an entry that never expires is
\* never read and is left out
new_value(items, expires) ==
    [set |-> TRUE, at |-> IF expires THEN now ELSE 0, alias |-> FALSE,
     items |-> items]
new_alias(expires) ==
    [set |-> TRUE, at |-> IF expires THEN now ELSE 0, alias |-> TRUE,
     items |-> {}]

\* what the caller of a cached read has got: the result, and the entity of the
\* kind created since the last read of the kind
got(kind, result) ==
    /\ answer' = [kind |-> kind, result |-> result, after |-> fresh[kind]]
    /\ fresh' = [fresh EXCEPT ![kind] = ""]

\* the clock advances
Tick ==
    /\ now < MaxTicks * TickSeconds
    /\ now' = now + TickSeconds
    /\ UNCHANGED <<bCache, sequenceDirs, assetFiles, sequenceList, assetTypes,
                   fresh, answer, non_cache_vars>>

\* Project.createSequence: Sequence.create makes the folder of the sequence
Project_createSequence(sequenceName) ==
    /\ sequenceDirs' = sequenceDirs \cup {sequenceName}
    /\ fresh' = [fresh EXCEPT !["sequence"] = sequenceName]
    /\ UNCHANGED <<now, bCache, assetFiles, sequenceList, assetTypes, answer,
                   non_cache_vars>>

\* Project.updateSequenceList: every folder is appended to the list the
\* object already holds, and the list is sorted
updateSequenceList == sequenceList (+) SetToBag(sequenceDirs)

\* Project.sequenceNames: the cached value is the list object of the Project
Project_sequenceNames ==
    LET key == <<"sequenceNames", "">>
    IN  /\ IF has_current_value(bCache, key, TRUE)
           THEN /\ got("sequence", BagToSet(sequenceList))
                /\ UNCHANGED <<bCache, sequenceList>>
           ELSE /\ sequenceList' = updateSequenceList
                /\ bCache' = [bCache EXCEPT ![key] = new_alias(TRUE)]
                /\ got("sequence", BagToSet(updateSequenceList))
        /\ UNCHANGED <<now, sequenceDirs, assetFiles, assetTypes,
                       non_cache_vars>>

\* Sequence.addNewAssetType: a type of a new name goes to the end of the list
Sequence_addNewAssetType(name) ==
    /\ assetTypes' = IF name \notin list_items(assetTypes)
                     THEN Append(assetTypes, name) ELSE assetTypes
    /\ fresh' = [fresh EXCEPT !["type"] = name]
    /\ UNCHANGED <<now, bCache, sequenceDirs, assetFiles, sequenceList,
                   answer, non_cache_vars>>

\* Sequence.getAssetTypes: without an environment the cached value is the list
\* object of the Sequence, with one it is a list of the types of the
\* environment, here all of them
Sequence_getAssetTypes(environment) ==
    LET key == <<"getAssetTypes", environment>>
    IN  /\ IF has_current_value(bCache, key, FALSE)
           THEN /\ got("type", IF bCache[key].alias
                               THEN list_items(assetTypes)
                               ELSE bCache[key].items)
                /\ UNCHANGED bCache
           ELSE /\ bCache' = [bCache EXCEPT ![key] =
                                 IF environment = "None" THEN new_alias(FALSE)
                                 ELSE new_value(list_items(assetTypes), FALSE)]
                /\ got("type", list_items(assetTypes))
        /\ UNCHANGED <<now, sequenceDirs, assetFiles, sequenceList,
                       assetTypes, non_cache_vars>>

\* Sequence.getAssetTypeWithName: the type of the name, or None
Sequence_getAssetTypeWithName(typeName) ==
    LET key == <<"getAssetTypeWithName", typeName>>
        found == {typeName} \cap list_items(assetTypes)
        result == IF has_current_value(bCache, key, FALSE)
                  THEN bCache[key].items ELSE found
    IN  /\ bCache' = IF has_current_value(bCache, key, FALSE) THEN bCache
                     ELSE [bCache EXCEPT ![key] = new_value(found, FALSE)]
        /\ IF fresh["type"] = typeName
           THEN got("type", result)
           ELSE /\ answer' = [kind |-> "type", result |-> result, after |-> ""]
                /\ UNCHANGED fresh
        /\ UNCHANGED <<now, sequenceDirs, assetFiles, sequenceList,
                       assetTypes, non_cache_vars>>

\* an asset file is saved under the asset folder of its type
save_asset_file(file) ==
    /\ asset_folder_of(file) \in list_items(assetTypes)
    /\ assetFiles' = assetFiles \cup {file}
    /\ fresh' = [fresh EXCEPT !["file"] = file]
    /\ UNCHANGED <<now, bCache, sequenceDirs, sequenceList, assetTypes,
                   answer, non_cache_vars>>

\* Sequence.getAssetFolders through the cache: the cache after the call
getAssetFolders_cache ==
    LET key == <<"getAssetFolders", "">>
    IN  IF has_current_value(bCache, key, TRUE) THEN bCache
        ELSE [bCache EXCEPT ![key] = new_value(list_items(assetTypes), TRUE)]

\* Sequence.getAllAssets: the files under the asset folders that the cached
\* getAssetFolders returns
Sequence_getAllAssets ==
    LET key == <<"getAllAssets", "">>
        assetFolders == getAssetFolders_cache[<<"getAssetFolders", "">>].items
        assets == {f \in assetFiles : asset_folder_of(f) \in assetFolders}
    IN  /\ IF has_current_value(bCache, key, TRUE)
           THEN /\ got("file", bCache[key].items)
                /\ UNCHANGED bCache
           ELSE /\ bCache' = [getAssetFolders_cache EXCEPT
                                 ![key] = new_value(assets, TRUE)]
                /\ got("file", assets)
        /\ UNCHANGED <<now, sequenceDirs, assetFiles, sequenceList,
                       assetTypes, non_cache_vars>>

CreateSequence ==
    \E sequenceName \in NewSequenceNames \ sequenceDirs :
        Project_createSequence(sequenceName)

ReadSequenceNames == Project_sequenceNames

AddAssetType ==
    \E name \in NewAssetTypeNames \ list_items(assetTypes) :
        Sequence_addNewAssetType(name)

ReadAssetTypes ==
    \E environment \in {"None", "MAYA"} : Sequence_getAssetTypes(environment)

ReadAssetTypeWithName ==
    \E typeName \in {"MODEL", "RIG"} : Sequence_getAssetTypeWithName(typeName)

SaveAssetFile == \E file \in NewAssetFiles \ assetFiles : save_asset_file(file)

ReadAllAssets == Sequence_getAllAssets

NextCache ==
    \/ Tick
    \/ CreateSequence
    \/ ReadSequenceNames
    \/ AddAssetType
    \/ ReadAssetTypes
    \/ ReadAssetTypeWithName
    \/ SaveAssetFile
    \/ ReadAllAssets

SpecCache == Init /\ [][NextCache]_vars

(* ------------ the owner, the type and the creator of a Version ---------- *)

\* the objects a caller can pass: the instances of each class, None and an int
VersionableBases == {"asset1", "shot1"}
VersionTypes == {"Model", "Animation"}
Users == {"user1"}
NoneObject == "None"
AnInt == "1"

\* Version._validate_version_of: the exception it raises, or ""
Version_validate_version_of(version_of) ==
    IF version_of = NoneObject THEN "RuntimeError"
    ELSE IF version_of \notin VersionableBases THEN "TypeError"
    ELSE ""

\* Version._validate_type: the exception it raises, or ""
Version_validate_type(type) ==
    IF type = NoneObject THEN "RuntimeError"
    ELSE IF type \notin VersionTypes THEN "TypeError"
    ELSE ""

\* Version._validate_note: the exception it raises, or ""
Version_validate_note(note) ==
    IF note = NoneObject THEN ""
    ELSE IF note = AnInt THEN "TypeError"
    ELSE ""

\* the validator without the test for None
Version_validate_created_by_any(created_by) ==
    IF created_by = NoneObject THEN ""
    ELSE IF created_by \notin Users THEN "TypeError"
    ELSE ""

\* Version._validate_created_by: the exception it raises, or ""
Version_validate_created_by(created_by) ==
    IF created_by = NoneObject THEN "RuntimeError"
    ELSE IF created_by \notin Users THEN "TypeError"
    ELSE ""

\* a validator of Version.__init__ raises: no Version is constructed
Version_init_raises(p, e) ==
    /\ pc[p] = "idle"
    /\ BagCardinality(Versions) < MaxVersions
    /\ pc' = [pc EXCEPT ![p] = "error"]
    /\ err' = [err EXCEPT ![p] = e]
    /\ UNCHANGED <<Versions, obj, name_vars, ext_vars>>

\* Version.__init__ with all of its arguments: the attributes are assigned,
\* and validated, in the order _version_of, _type, base_name, take_name,
\* version_number, note, created_by
Version_new(p, version_of, type, base_name, take_name, version_number, note, created_by) ==
    LET b == Version_validate_base_name(base_name)
        t == Version_validate_take_name(take_name)
    IN  IF Version_validate_version_of(version_of) # ""
        THEN Version_init_raises(p, Version_validate_version_of(version_of))
        ELSE IF Version_validate_type(type) # ""
        THEN Version_init_raises(p, Version_validate_type(type))
        ELSE IF IsRaised(b) \/ IsRaised(t)
        THEN Version_init(p, version_of, type, base_name, take_name,
                          version_number)
        ELSE IF Version_validate_note(note) # ""
        THEN Version_init_raises(p, Version_validate_note(note))
        ELSE IF Version_validate_created_by(created_by) # ""
        THEN Version_init_raises(p, Version_validate_created_by(created_by))
        ELSE Version_init(p, version_of, type, base_name, take_name,
                          version_number)

\* what a caller passes as version_of, as type and as created_by: an instance
\* of the class, None, an int, or an instance of another class
OwnerArguments == {"asset1", "shot1", NoneObject, "Model"}
TypeArguments == {"Model", "Animation", NoneObject, AnInt}
NoteArguments == {"", AnInt}
CreatorArguments == {"user1", NoneObject, "asset1"}

\* the raw base_name and take_name a caller passes: a pair that conditions to
\* (A, MAIN), one that conditions to (A, A) and one with an empty base name
OwnedNames == {<<Str(<<"a">>), NoneValue>>, <<Str(<<"a">>), Str(<<"a">>)>>,
               <<Str(<<"1">>), NoneValue>>}

\* a single process that constructs Versions with any owner, type, note and
\* creator, and saves them
ConstructOwned ==
    \E version_of \in OwnerArguments, type \in TypeArguments,
       bt \in OwnedNames, note \in NoteArguments, created_by \in CreatorArguments :
        Version_new(1, version_of, type, bt[1], bt[2], 1, note, created_by)

NextOwners == ConstructOwned \/ SaveOne \/ NextOne

SpecOwners == Init /\ [][NextOwners]_vars

(* ============================== properties ============================= *)

\* the rows of a table with this base_name and this take_name
RowsOf(versions, base_name, take_name) ==
    {r \in BagToSet(versions) : /\ r.base_name = base_name
                                /\ r.take_name = take_name}

NumbersOf(versions, base_name, take_name) ==
    {r.version_number : r \in RowsOf(versions, base_name, take_name)}

\* the largest persisted version_number of the pair, 0 if there is none
Largest(versions, base_name, take_name) ==
    CHOOSE m \in 0..(MaxRequested + MaxVersions + 1) :
        /\ \A n \in NumbersOf(versions, base_name, take_name) : n <= m
        /\ m = 0 \/ m \in NumbersOf(versions, base_name, take_name)

\* caller p commits a row in this step
Commits(p) == pc[p] = "constructed" /\ pc'[p] = "saved"

\* C1: when the N callers of SpecConcurrent, which all allocate on one
\* (base_name, take_name) from an empty table without an explicit number,
\* have all finished, the committed version numbers are exactly 1..N, one
\* row each.
C1_ConcurrentAllocationExact ==
    (\A p \in Callers : pc[p] \in {"saved", "error"}) =>
        /\ BagCardinality(Versions) = NumCallers
        /\ {r.version_number : r \in BagToSet(Versions)} = 1..NumCallers

\* no two rows of the Versions table share (base_name, take_name,
\* version_number)
UniqueTriples ==
    \A r1, r2 \in BagToSet(Versions) :
        (/\ r1.base_name = r2.base_name
         /\ r1.take_name = r2.take_name
         /\ r1.version_number = r2.version_number)
        => r1 = r2 /\ CopiesIn(r1, Versions) = 1

\* a save whose triple is already in the table raises and inserts nothing
DuplicateRejected ==
    \A p \in Callers :
        (/\ pc[p] = "constructed"
         /\ pc'[p] # "constructed"
         /\ obj[p].version_number \in
                NumbersOf(Versions, obj[p].base_name, obj[p].take_name))
        => /\ Versions' = Versions
           /\ pc'[p] = "error"
           /\ err'[p] = "IntegrityError"

\* no step changes or removes a row that is in the table
RowsKept ==
    \A r \in BagToSet(Versions) : CopiesIn(r, Versions') >= CopiesIn(r, Versions)

\* C2: in every reachable state no two persisted Versions share the triple
\* (base_name, take_name, version_number); a commit of a triple that exists
\* is rejected with an error, and no step overwrites or duplicates a row.
C2_UniqueTriple ==
    /\ []UniqueTriples
    /\ [][DuplicateRejected /\ RowsKept]_vars

\* a caller's save was rejected, and the table holds one row
C2_Witness ==
    /\ \E p \in Callers : err[p] = "IntegrityError"
    /\ BagCardinality(Versions) = 1

\* the number the allocation rule gives for a requested number
Allocated(versions, base_name, take_name, requested) ==
    LET m == Largest(versions, base_name, take_name)
    IN  IF requested = NoNumber \/ requested <= m THEN m + 1 ELSE requested

\* C3: the number a Version gets at construction is max_version + 1 when
\* the requested number is None or <= max_version, and the requested number
\* when it is > max_version, where max_version is the largest persisted
\* version_number of exactly this base_name and take_name (0 if none),
\* whatever the type and the owner of the persisted rows.
C3_AllocateRule ==
    [][\A ot \in OwnersAndTypes, bt \in AllRawNames, n \in AllRequested :
          (Version_init(1, ot[1], ot[2], bt[1], bt[2], n)
           /\ pc'[1] = "constructed") =>
              obj'[1].version_number =
                  Allocated(Versions, obj'[1].base_name, obj'[1].take_name, n)]_vars

\* a Version was given 2, one more than the number of the row of its pair,
\* a row of another owner and another type
C3_Witness ==
    /\ pc[1] = "constructed"
    /\ obj[1].version_number = 2
    /\ \E r \in BagToSet(Versions) :
           /\ r.base_name = obj[1].base_name
           /\ r.take_name = obj[1].take_name
           /\ r.version_number = 1
           /\ r.type # obj[1].type
           /\ r.version_of # obj[1].version_of

\* C4: between a caller's max-lookup (construction) and its own commit, no
\* other caller's commit for the same (base_name, take_name) takes effect.
C4_LookupAndInsertAtomic ==
    [][\A p, q \in Callers :
          (/\ p # q
           /\ pc[p] = "constructed"
           /\ obj[q].base_name = obj[p].base_name
           /\ obj[q].take_name = obj[p].take_name)
          => ~Commits(q)]_vars

\* C5: a uniqueness violation at commit is never surfaced to the caller as
\* the raw constraint violation (the allocator retries with a fresh number).
C5_NoRawConstraintViolation ==
    \A p \in Callers : err[p] # "IntegrityError"

\* C6: a save that fails on a conflict surfaces AllocationConflictError
\* (after its bounded retries) and leaves the persisted Versions as they
\* were before the call.
C6_ConflictSurfacedAsAllocationConflict ==
    [][\A p \in Callers :
          (pc[p] = "constructed" /\ pc'[p] = "error") =>
              /\ err'[p] = "AllocationConflictError"
              /\ Versions' = Versions]_vars

\* C7: whenever a Version is committed, its version_number is greater than
\* every version_number already committed for its (base_name, take_name).
C7_CommitsMonotonic ==
    [][\A p \in Callers :
          Commits(p) /\ Versions' # Versions =>
              \A n \in NumbersOf(Versions, obj[p].base_name, obj[p].take_name) :
                  obj[p].version_number > n]_vars

\* the number of rows of a table with this base_name and this take_name
CountOf(versions, base_name, take_name) ==
    BagCardinality([r \in RowsOf(versions, base_name, take_name) |->
                       CopiesIn(r, versions)])

\* C8: in SpecSequential (one process, default version number, each Version
\* saved before the next is constructed, empty table at the start) the k-th
\* Version of a (base_name, take_name) has version_number k, at its
\* construction and in the table, whatever the types of the Versions.
C8_SequentialNumbering ==
    /\ \A r \in BagToSet(Versions) :
           NumbersOf(Versions, r.base_name, r.take_name) =
               1..CountOf(Versions, r.base_name, r.take_name)
    /\ pc[1] = "constructed" =>
           obj[1].version_number =
               CountOf(Versions, obj[1].base_name, obj[1].take_name) + 1
    /\ pc[1] # "error" \/ err[1] = "ValueError"

\* the second Version of a pair has been saved with number 2 and a type
\* other than the first's
C8_Witness ==
    /\ pc[1] = "saved"
    /\ \E r1, r2 \in BagToSet(Versions) :
           /\ r1.base_name = r2.base_name
           /\ r1.take_name = r2.take_name
           /\ r1.version_number = 1
           /\ r2.version_number = 2
           /\ r1.type # r2.type

HasLetter(s) == \E i \in 1..Len(s) : s[i] \in Alpha

\* conditioning succeeded for a raw name that has a letter
ConditionTotal ==
    (attribute # "none" /\ name_in.kind # "None" /\ HasLetter(name_in.chars))
        => ~IsRaised(stored)

\* conditioning the conditioned name gives the conditioned name
ConditionIdempotent ==
    (passes = 1 /\ passes' = 2) => stored' = stored

\* C9: for every raw name with at least one letter, conditioning succeeds
\* and conditioning the result again leaves it unchanged, for the
\* upper-casing variant of Project names and for the title-casing variant
\* of Version base and take names.
C9_ConditionIdempotentTotal ==
    /\ []ConditionTotal
    /\ [][ConditionIdempotent]_vars

\* a Project name that conditioning changed by a CamelCase underscore has
\* been conditioned a second time
C9_Witness ==
    /\ passes = 2
    /\ attribute = "Project.name"
    /\ ~IsRaised(stored)
    /\ Len(stored.chars) > Len(name_in.chars)

\* C10: no Project name, Version base_name or Version take_name is stored
\* empty: when conditioning yields the empty string the assignment raises.
C10_NoEmptyNameStored ==
    (attribute # "none" /\ ~IsRaised(stored)) => stored.chars # <<>>

(* ------------------------------- Shot code ----------------------------- *)

\* the digits and the letters of a string, in their order
digits_of(s) == SelectSeq(s, LAMBDA c : c \in Digit)
letters_of(s) == SelectSeq(s, LAMBDA c : c \in Alpha)

\* n zeros
zeros(n) == [i \in 1..n |-> "0"]

\* the code the documentation gives for the Shot o: the prefix, the digits
\* of the number padded with zeros, the alternate letter
padded_code(o) ==
    LET D == digits_of(o.number)
        L == letters_of(o.number)
    IN  SHOT_PREFIX
            \o (IF Len(D) < SHOT_PADDING THEN zeros(SHOT_PADDING - Len(D)) ELSE <<>>)
            \o D \o L

\* the number of o is the first run of digits of the raw number, followed
\* by the upper-cased letter that comes right after the run, when there is one
NumberFromRaw(o) ==
    LET t == SelectSeq(o.raw, LAMBDA c : c \in Alpha \cup Digit)
        D == digits_of(o.number)
        L == letters_of(o.number)
    IN  /\ o.number = D \o L
        /\ Len(D) >= 1
        /\ Len(L) <= 1
        /\ \A i \in 1..Len(L) : L[i] \in Upper
        /\ \E k \in 0..Len(t) :
               /\ \A i \in 1..k : t[i] \notin Digit
               /\ k + Len(D) <= Len(t)
               /\ SubSeq(t, k + 1, k + Len(D)) = D
               /\ IF k + Len(D) = Len(t) THEN L = <<>>
                  ELSE /\ t[k + Len(D) + 1] \notin Digit
                       /\ L = <<UpperChar(t[k + Len(D) + 1])>>

\* C11: the code of every Shot is the shot prefix, the digits of its number
\* left-padded with zeros to the shot padding, and the upper-cased alternate
\* letter of its number; the numbers "1", "12a" and "abc323d" give the codes
\* SH001, SH012A and SH323D
C11_ShotCode ==
    \A p \in ShotMakers :
        shot[p] # NoShot =>
            /\ NumberFromRaw(shot[p])
            /\ Shot_code(shot[p]) = padded_code(shot[p])
            /\ shot[p].raw = <<"1">> =>
                   Shot_code(shot[p]) = <<"S", "H", "0", "0", "1">>
            /\ shot[p].raw = <<"1", "2", "a">> =>
                   Shot_code(shot[p]) = <<"S", "H", "0", "1", "2", "A">>
            /\ shot[p].raw = <<"a", "b", "c", "3", "2", "3", "d">> =>
                   Shot_code(shot[p]) = <<"S", "H", "3", "2", "3", "D">>

\* a Shot has been constructed from "abc323d" and its code is SH323D
C11_Witness ==
    \E p \in ShotMakers :
        /\ shot[p].raw = <<"a", "b", "c", "3", "2", "3", "d">>
        /\ Shot_code(shot[p]) = <<"S", "H", "3", "2", "3", "D">>

(* --------------------------- Shot uniqueness --------------------------- *)

\* no two rows of the Shots table share (sequence_id, number)
UniqueShotNumbers ==
    \A r1, r2 \in BagToSet(Shots) :
        (r1.sequence_id = r2.sequence_id /\ r1.number = r2.number)
        => r1 = r2 /\ CopiesIn(r1, Shots) = 1

\* the conditioned form of a raw shot number
conditioned_number(number) ==
    upper(number_and_letter(remove_non_alnum(number.chars)))

\* the numbers of the persisted Shots of a Sequence
NumbersIn(shots, sequence_id) ==
    {r.number : r \in {x \in BagToSet(shots) : x.sequence_id = sequence_id}}

\* a construction with a number that its Sequence holds raises ValueError and
\* gives no Shot; with a number that its Sequence does not hold it gives the
\* Shot, whatever the other Sequence holds
ConstructionChecksOwnSequence ==
    \A p \in ShotMakers, q \in SequenceIds, number \in SharedShotNumbers :
        Shot_init(p, q, number, IntFrame(1), IntFrame(1)) =>
            IF conditioned_number(number) \in NumbersIn(Shots, q)
            THEN shot_err'[p] = "ValueError" /\ shot'[p] = NoShot
            ELSE conditioned_number(number) # <<>> =>
                     /\ shot_err'[p] = ""
                     /\ shot'[p].number = conditioned_number(number)
                     /\ shot'[p].sequence_id = q

\* a save inserts the Shot when its Sequence does not hold the number, and
\* raises otherwise
SaveChecksOwnSequence ==
    \A p \in ShotMakers :
        (shot[p] # NoShot /\ shot'[p] = NoShot) =>
            IF shot[p].number \in NumbersIn(Shots, shot[p].sequence_id)
            THEN Shots' = Shots /\ shot_err'[p] = "IntegrityError"
            ELSE /\ Shots' = Shots (+) SetToBag({shot_row(shot[p])})
                 /\ shot_err'[p] = ""

\* no step changes or removes a persisted Shot
ShotsKept ==
    \A r \in BagToSet(Shots) : CopiesIn(r, Shots') >= CopiesIn(r, Shots)

\* C12: within one Sequence no two persisted Shots have the same conditioned
\* number; creating a Shot whose number exists in its Sequence fails with a
\* validation error and leaves the persisted Shots as they are, and the same
\* number in a different Sequence is accepted.
C12_ShotNumberUniquePerSequence ==
    /\ []UniqueShotNumbers
    /\ [][ConstructionChecksOwnSequence /\ SaveChecksOwnSequence
              /\ ShotsKept]_vars

\* both Sequences hold the Shot 1A, and a construction of a second 1A was
\* refused
C12_Witness ==
    /\ \A q \in SequenceIds : <<"1", "A">> \in NumbersIn(Shots, q)
    /\ \E p \in ShotMakers : shot_err[p] = "ValueError"

(* ---------------------------- Shot duration ---------------------------- *)

alternate_name(shot_number, i) == Append(str_int(shot_number), alternateLetters[i])

\* r is shot + L for the first alternate letter L, in alphabetical order,
\* whose name is not in the list, and None exactly when every letter is used
FirstUnused(list, shot_number, r) ==
    LET unused == {i \in 1..Len(alternateLetters) :
                       ~in_list(alternate_name(shot_number, i), list)}
    IN  IF unused = {} THEN r = NoneValue
        ELSE \E i \in unused :
                 /\ \A j \in unused : i <= j
                 /\ r = Str(alternate_name(shot_number, i))

\* C14: getNextAlternateShotName(n) returns n+L for the first alternate
\* letter L, in alphabetical order, such that n+L is not in the shot list,
\* and None only when n+L is in use for every letter; with the shots 10, 10A
\* and 10B the result for 10 is 10C.
C14_FirstUnusedAlternate ==
    [][(\A shot_number \in AskedShots :
            Sequence_getNextAlternateShotName(shot_number) =>
                (/\ FirstUnused(shotList, shot_number, alternate')
                 /\ ((shot_number = 10 /\ shotList = <<<<"1", "0">>, <<"1", "0", "A">>,
                                                <<"1", "0", "B">>>>)
                         => alternate' = Str(<<"1", "0", "C">>))))
       /\ (Sequence_addAlternativeShot(10) =>
               FirstUnused(shotList, 10, alternate'))]_vars

\* with the shots 10, 10A and 10B the answer was 10C
C14_Witness ==
    /\ shotList = <<<<"1", "0">>, <<"1", "0", "A">>, <<"1", "0", "B">>>>
    /\ alternate = Str(<<"1", "0", "C">>)

\* every alternate letter of shot 10 is in use and the answer was None
AllAlternatesUsed ==
    /\ \A i \in 1..Len(alternateLetters) : in_list(alternate_name(10, i), shotList)
    /\ alternate = NoneValue

(* ------------------------ file names and templates --------------------- *)

\* an Asset has been made of the file name of state with the new grammar
ParsedNew == asset.fileName # NoneValue /\ ~asset.noSubNameField

\* C15: for every Version whose filename is rendered with the default
\* filename template, parsing that filename recovers the same baseName,
\* subName (the take name), typeCode, verString, userInitials and notes; in
\* particular Car_MAIN_MODEL_v003_oy parses to Car, MAIN, MODEL, v003, oy
\* and empty notes.
C15_ParseRecoversRendered ==
    /\ (/\ ParsedNew
        /\ rendering.template = "filename"
        /\ file_name = rendering.out)
       => /\ asset.baseName = Str(rendering.version.base_name)
          /\ asset.subName = Str(rendering.version.take_name)
          /\ asset.typeName = Str(rendering.version.type_code)
          /\ asset.verString =
                 Str(VER_PREFIX \o zfill(str_int(rendering.version.version_number), 3))
          /\ asset.userInitials = Str(rendering.version.initials)
          /\ asset.notes = Str(<<>>)
    /\ (ParsedNew /\ file_name = Str(<<"C", "a", "r", "_", "M", "A", "I", "N", "_", "M", "O", "D", "E", "L", "_", "v", "0", "0", "3", "_", "o", "y">>))
       => /\ asset.baseName = Str(<<"C", "a", "r">>)
          /\ asset.subName = Str(<<"M", "A", "I", "N">>)
          /\ asset.typeName = Str(<<"M", "O", "D", "E", "L">>)
          /\ asset.verString = Str(<<"v", "0", "0", "3">>)
          /\ asset.userInitials = Str(<<"o", "y">>)
          /\ asset.notes = Str(<<>>)

\* C16: parsing a file name never raises, for every file name and for both
\* grammars, names with fewer fields than the grammar needs included: the
\* outcome is parsed metadata or an Asset that is not valid.
C16_ParseNeverRaises == asset.raised = ""

\* the paths a template refers to
paths_of(template) ==
    {template[i].arg : i \in {j \in 1..Len(template) : template[j].op # "text"}}

\* C17: rendering a template that refers to a variable or an attribute that
\* is not defined fails with an error; no filename or path is produced with
\* an undefined variable rendered as the empty string.
C17_UndefinedVariableRaises ==
    (rendering # NoRendering /\ ~IsRaised(rendering.out)) =>
        \A path \in paths_of(template_of(rendering.template)) :
            path \in DOMAIN template_variables(rendering.version)

(* ------------------------- Projects and Sequences ---------------------- *)

\* no name is in the Projects tables twice
OneRowPerName == \A n \in BagToSet(Projects) : CopiesIn(n, Projects) = 1

\* the raw names that condition to a name the Projects tables hold
ConditionToPersisted ==
    {name \in RawProjectNames :
        /\ name.kind \in {"str", "unicode"}
        /\ ~IsRaised(Project_condition_name(name))
        /\ Project_condition_name(name).chars \in BagToSet(Projects)}

\* Project(raw) with a raw name that conditions to a persisted name gives
\* the persisted Project
PersistedReturned ==
    \A u \in ProjectUsers, name \in ConditionToPersisted :
        Project_new(u, name) =>
            /\ project'[u].persistent
            /\ project'[u].name = Project_condition_name(name).chars

\* C18: after any Project(name) constructions and save() calls there is at
\* most one persisted Project row per conditioned name, and once a Project
\* has been saved every later Project(raw) whose raw name conditions to the
\* same string returns the persisted Project, not a new one.
C18_OneProjectPerName ==
    /\ []OneRowPerName
    /\ [][PersistedReturned]_vars

\* C20: constructing a Sequence before Project.create() has made the folder
\* of the Project exist raises RuntimeError, passing None or a value that is
\* neither a Project nor a string raises TypeError, and in these cases no
\* Sequence is created or persisted.
C20_SequenceNeedsCreatedProject ==
    [][\A u \in ProjectUsers, arg \in ProjectArguments :
           Sequence_new(u, arg, <<"S", "E", "Q", "1">>) =>
               /\ arg # "Project" =>
                      /\ pm_err'[u] = "TypeError"
                      /\ sequence' = sequence
                      /\ Sequences' = Sequences
               /\ (arg = "Project" /\ project[u].name \notin folders) =>
                      /\ pm_err'[u] = "RuntimeError"
                      /\ sequence' = sequence
                      /\ Sequences' = Sequences]_vars

\* C19: a cached read never masks an entity the process has just created: the
\* first cached read of a kind after the process created a sequence, an asset
\* file or an asset type returns a result that holds the new entity
C19_ReadYourWrites ==
    answer.after # "" => answer.after \in answer.result

\* the exception the claim gives for an argument: RuntimeError for None,
\* TypeError for an object of another class
OwnerError(argument, class) ==
    IF argument = NoneObject THEN "RuntimeError"
    ELSE IF argument \notin class THEN "TypeError"
    ELSE ""

\* C21: a Version has exactly one owner, one type and one creator:
\* constructing a Version with version_of, type or created_by None raises
\* RuntimeError and with an object of another class raises TypeError; in each
\* error case no Version is constructed and nothing is added to the persisted
\* Versions; a Version that is constructed has the owner and the type given
C21_OwnerTypeCreator ==
    [][\A version_of \in OwnerArguments, type \in TypeArguments,
          bt \in OwnedNames, note \in NoteArguments,
          created_by \in CreatorArguments :
          Version_new(1, version_of, type, bt[1], bt[2], 1, note, created_by) =>
              /\ (\/ OwnerError(version_of, VersionableBases) # ""
                  \/ OwnerError(type, VersionTypes) # ""
                  \/ OwnerError(created_by, Users) # "") =>
                     (/\ pc'[1] = "error"
                      /\ obj'[1] = NoObject
                      /\ Versions' = Versions)
              /\ OwnerError(version_of, VersionableBases) # "" =>
                     err'[1] = OwnerError(version_of, VersionableBases)
              /\ (/\ OwnerError(version_of, VersionableBases) = ""
                  /\ OwnerError(type, VersionTypes) # "") =>
                     err'[1] = OwnerError(type, VersionTypes)
              /\ (/\ OwnerError(version_of, VersionableBases) = ""
                  /\ OwnerError(type, VersionTypes) = ""
                  /\ ~IsRaised(Version_validate_base_name(bt[1]))
                  /\ ~IsRaised(Version_validate_take_name(bt[2]))
                  /\ note # AnInt
                  /\ OwnerError(created_by, Users) # "") =>
                     err'[1] = OwnerError(created_by, Users)
              /\ pc'[1] = "constructed" =>
                     (/\ obj'[1].version_of = version_of
                      /\ version_of \in VersionableBases
                      /\ obj'[1].type = type
                      /\ type \in VersionTypes
                      /\ created_by \in Users)]_vars

\* a construction raised TypeError, which only the owner, the type, the note
\* and the creator can raise, while the Versions table holds a row
C21_Witness ==
    /\ pc[1] = "error"
    /\ err[1] = "TypeError"
    /\ Versions # EmptyBag

\* s with an underscore before every upper-case letter that immediately
\* follows a lower-case letter
RECURSIVE underscore_every_boundary(_)
underscore_every_boundary(s) ==
    IF Len(s) < 2 THEN s
    ELSE LET front == underscore_every_boundary(SubSeq(s, 1, Len(s) - 1))
             last  == s[Len(s)]
         IN  IF last \in Upper /\ s[Len(s) - 1] \in Lower
             THEN front \o <<"_", last>>
             ELSE Append(front, last)

\* C22: Project name conditioning inserts an underscore before every
\* upper-case letter that immediately follows a lower-case letter of the raw
\* name, at every such position, the first character of the name included:
\* the stored name is the one the other conditioning steps give for the raw
\* name with all of these underscores in it
C22_CamelCaseEveryBoundary ==
    (attribute = "Project.name" /\ passes = 1 /\ ~IsRaised(stored)) =>
        stored.chars =
            upper(spaces_to_underscore(strip_leading_non_alpha(
                remove_invalid(underscore_every_boundary(replace_dash(
                    strip(name_in.chars)))))))

\* a shot number of one or more digits followed by at most one alternate
\* letter, an upper-case letter other than Q
WellFormedShotNumber(number) ==
    LET D == digits_of(number)
        L == letters_of(number)
    IN  /\ number = D \o L
        /\ Len(D) >= 1
        /\ Len(L) <= 1
        /\ \A i \in 1..Len(L) : L[i] \in list_items(alternateLetters)

\* C23: every Shot number that passes validation, and every one that is
\* stored, is one or more digits followed by at most one upper-case alternate
\* letter in A-Z other than Q; any other input is reduced to that form or is
\* rejected with a validation error
C23_ShotNumberForm ==
    /\ \A p \in ShotMakers :
           shot[p] # NoShot => WellFormedShotNumber(shot[p].number)
    /\ \A r \in BagToSet(Shots) : WellFormedShotNumber(r.number)

\* the string is exactly the prefix followed only by digits
PrefixAndDigits(string, prefix) ==
    /\ Len(string) > Len(prefix)
    /\ SubSeq(string, 1, Len(prefix)) = prefix
    /\ \A i \in (Len(prefix) + 1)..Len(string) : IsDigitChar(string[i])

\* C24: a parsed file name is not a valid asset whenever its type field does
\* not resolve to a type registered on the Sequence, or its revision string
\* is not exactly the revision prefix followed only by digits, or its version
\* string is not exactly the version prefix followed only by digits
C24_NotAnAsset ==
    (asset # NoAsset /\ asset.raised = "") =>
        ((\/ asset.typeName.chars \notin AssetTypeNames
          \/ ~PrefixAndDigits(asset.revString.chars, REV_PREFIX)
          \/ ~PrefixAndDigits(asset.verString.chars, VER_PREFIX))
         => ~Asset_isValidAsset(asset))

\* C25: the take_name of a Version is "MAIN" whenever the take_name argument
\* is skipped (the default "MAIN" is passed), is None or is an empty string;
\* the construction fails in none of these three cases
C25_TakeNameDefault ==
    /\ Version_validate_take_name(Str(TAKE_NAME)) = Str(TAKE_NAME)
    /\ (/\ attribute = "Version.take_name"
        /\ passes = 1
        /\ name_in.kind = "None" \/ name_in.chars = <<>>) =>
           (~IsRaised(stored) /\ stored.chars = TAKE_NAME)

\* a name that starts with an upper-case letter, holds only letters, digits
\* and single underscores, does not end with an underscore, and whose words
\* that start with a letter start with an upper-case letter
TitledName(s) ==
    /\ Len(s) >= 1
    /\ s[1] \in Upper
    /\ s[Len(s)] # "_"
    /\ \A i \in 1..Len(s) : s[i] \in Alpha \cup Digit \cup {"_"}
    /\ \A i \in 2..Len(s) :
           /\ ~(s[i - 1] = "_" /\ s[i] = "_")
           /\ (s[i - 1] = "_" /\ s[i] \in Alpha) => s[i] \in Upper

\* C26: every conditioned Version base_name and take_name starts with an
\* upper-case letter, contains only letters, digits and single underscores,
\* has no white space, no leading or trailing underscore and no two adjacent
\* underscores, and every word between underscores that starts with a letter
\* starts with an upper-case letter; " 12 base name 13" gives "Base_Name_13"
\* and "_base_name_" gives "Base_Name"
C26_TitledVersionNames ==
    /\ (attribute \in {"Version.base_name", "Version.take_name"}
        /\ ~IsRaised(stored)) => TitledName(stored.chars)
    /\ Version_condition_name(Str(<<" ", "1", "2", " ", "b", "a", "s", "e", " ",
                                    "n", "a", "m", "e", " ", "1", "3">>)).chars
           = <<"B", "a", "s", "e", "_", "N", "a", "m", "e", "_", "1", "3">>
    /\ Version_condition_name(Str(<<"_", "b", "a", "s", "e", "_", "n", "a", "m",
                                    "e", "_">>)).chars
           = <<"B", "a", "s", "e", "_", "N", "a", "m", "e">>

\* the base_name "_a b" of a Version has been conditioned to "A_B"
C26_Witness ==
    /\ attribute = "Version.base_name"
    /\ name_in.chars = <<"_", "a", " ", "b">>
    /\ stored.chars = <<"A", "_", "B">>

(* ---------------------- the shots of a legacy Sequence ----------------- *)

\* no name is twice in the list
NoDuplicates(list) ==
    \A i, j \in 1..Len(list) : list[i] = list[j] => i = j

\* C27: in a legacy Sequence, after construction and any sequence of
\* readSettings, create, addShots and addAlternativeShot calls, the shot list
\* holds no name twice and the shot objects are exactly one Shot per name of
\* the shot list
C27_OneShotPerName ==
    /\ NoDuplicates(shotList)
    /\ NoDuplicates(sequence_shots)
    /\ list_items(sequence_shots) = list_items(shotList)

\* C28: Project.updateSequenceList is idempotent: with an unchanged project
\* folder, after any number of calls, through sequenceNames() once its cache
\* entry has expired, the sequence list holds each sequence folder name
\* exactly once
C28_SequenceListOnce ==
    /\ \A name \in BagToSet(sequenceList) : CopiesIn(name, sequenceList) = 1
    /\ BagToSet(sequenceList) \subseteq sequenceDirs

\* C29: for any sequence of addAlternativeShot calls on a legacy Sequence,
\* every name returned that is not None was not in the shot list before the
\* call, is in the shot list after it and differs from every name an earlier
\* call returned; when None is returned the shot list and the shot objects
\* are unchanged
C29_AlternativeShotIsNew ==
    [][Sequence_addAlternativeShot(10) =>
           /\ alternate' # NoneValue =>
                  (/\ ~in_list(alternate'.chars, shotList)
                   /\ in_list(alternate'.chars, shotList')
                   /\ in_list(alternate'.chars, sequence_shots')
                   /\ alternate'.chars \notin returned)
           /\ alternate' = NoneValue =>
                  (/\ shotList' = shotList
                   /\ sequence_shots' = sequence_shots)]_vars

\* addAlternativeShot has returned several names, and then None
C29_Witness ==
    /\ Cardinality(returned) >= 2
    /\ alternate = NoneValue
    /\ \A name \in returned : in_list(name, shotList)

\* the fields of an Asset that a file name carries
InfoFields(a) ==
    <<a.baseName, IF a.noSubNameField THEN NoneValue ELSE a.subName, a.typeName,
      a.revString, a.verString, a.userInitials,
      IF a.notes = NoneValue THEN Str(<<>>) ELSE a.notes>>

\* C30: for a valid legacy Asset, parsing the name that
\* fileNameWithoutExtension produced, with the same noSubNameField, recovers
\* the same baseName, subName (new grammar only), type name, revString,
\* verString, userInitials and notes; the name is produced for every valid
\* Asset
C30_FileNameRoundTrip ==
    [][/\ BuildFileName => file_name'.kind = "str"
       /\ (/\ Asset_isValidAsset(asset)
           /\ file_name = Asset_fileNameWithoutExtension(asset)
           /\ Asset_init(asset.noSubNameField))
          => InfoFields(asset') = InfoFields(asset)]_vars

====
